---- MODULE Spec2Model ----
(***************************************************************************)
(* A model of the Mercury RPC core (src/src/mercury_core.c): the class     *)
(* with its tag allocator and registry, the context with its completion    *)
(* queue and processing list, the handle life cycle with its reference     *)
(* count, the four network callbacks, the listen pump, HG_Progress and     *)
(* HG_Trigger.                                                             *)
(*                                                                         *)
(* Two processes are modelled.  "O" is an origin: its user creates         *)
(* handles and forwards them, either to the remote process "T" or to its   *)
(* own address.  "T" is a target: its network class is listening, so its   *)
(* HG_Progress runs the listen pump.  Each process has one class and one   *)
(* context.  The network layer (NA) is modelled by the posted receives,    *)
(* the messages in flight and, per process, the NA completion queue that   *)
(* NA_Trigger drains.                                                      *)
(***************************************************************************)
EXTENDS Integers, Sequences, FiniteSets, TLC

\* ------------------------------------------------------------------ bounds
\* Number of handles the user of "O" may create with HG_Create.
MaxCreate == 1
\* The same in the specification of concurrent HG_Trigger calls.
MaxCreateTrig == 2
\* Number of handles the listen pump of "T" may allocate.
MaxListen == 2
\* NA_Msg_get_max_tag of the network class (HG_Init, request_max_tag).
MaxTag == 2
\* Number of calls of the tag allocator in the tag specification.
MaxTagCalls == 6
\* Width in bits of the tag counter and of na_tag_t (32 in the program):
\* the counter and the tags are kept modulo 2^TagWidth.
TagWidth == 3
\* Number of injected faults (failed network completion, failed allocation).
MaxFaults == 1
\* Largest max_count a caller passes to HG_Trigger.
MaxCount == 2
\* Number of HG_Context_destroy calls per context.
MaxCtxDestroy == 2

\* ------------------------------------------------------- program constants
HG_MAX_PROCESSING_LIST_SIZE == 1

Procs == {"O", "T"}
\* NA_Is_listening(na_class): only the target's network class listens.
NA_Is_listening(p) == p = "T"
\* NA_Addr_is_self(na_class, addr) for the class of process p.
NA_Addr_is_self(p, addr) == addr = p

\* Threads that call HG_Trigger, each on the context of one process.
TThreads == {"o1", "o2", "t1"}
TCtx(t) == IF t = "t1" THEN "T" ELSE "O"
\* Threads that call HG_Progress, each on the context of one process: "O"
\* and "T" are the threads of the two processes, "T2" is a second thread
\* on the context of "T".
PThreads == {"O", "T", "T2"}
PCtx(t) == IF t = "O" THEN "O" ELSE "T"
\* Threads that forward concurrently on one class (tag specification).
TagThreads == {"u1", "u2"}
\* Number of sequential calls of the allocator: enough to wrap twice for
\* the largest request_max_tag.
MaxSeqCalls == 2 * (2 ^ TagWidth) + 2

NH == MaxCreateTrig + MaxListen
Handles == 1..NH

\* RPC ids: 1 is registered on both classes, 2 on neither.
RpcIds == {1, 2}
RegisteredIds == {1}

VARIABLES
    \* --- HG state
    handles,            \* [Handles -> struct hg_handle], plus history fields
    nalloc,             \* number of handle slots handed out by malloc
    completion_queue,   \* [Procs -> Seq(Handles)], head first
    processing_list,    \* [Procs -> Seq(Handles)]
    processing_list_mutex, \* [Procs -> BOOLEAN], TRUE when locked
    completion_queue_mutex, \* [Procs -> BOOLEAN], TRUE when locked
    cond_signalled,     \* [Procs -> SUBSET TThreads]: waiters a signal may wake
    bulk_context,       \* [Procs -> {"live", "NULL"}]
    ctx_live,           \* [Procs -> BOOLEAN], FALSE once the context is freed
    func_map,           \* [Procs -> [RegisteredIds -> struct hg_rpc_info]]
    request_tag,        \* [Procs -> Int], hg_class->request_tag
    request_max_tag,    \* [Procs -> Int], hg_class->request_max_tag
    \* --- NA state
    na_cq,              \* [Procs -> Seq(event)]: completed operations
    na_unexp,           \* [Procs -> Seq(Handles)]: posted unexpected receives
    na_exp,             \* set of posted expected receives
    net,                \* set of messages in flight
    \* --- threads
    prog,               \* [PThreads -> position and result of HG_Progress]
    trig,               \* [TThreads -> position and locals of HG_Trigger]
    tagt,               \* [TagThreads -> position and result of the allocator]
    \* --- history
    hist                \* counters the properties are stated on

vars == << handles, nalloc, completion_queue, processing_list,
           processing_list_mutex, completion_queue_mutex, cond_signalled,
           bulk_context, ctx_live,
           func_map, request_tag, request_max_tag, na_cq, na_unexp, na_exp,
           net, prog, trig, tagt, hist >>

\* -------------------------------------------------------------- tag allocator
\* hg_atomic_cas32(&request_tag, request_max_tag, 0): the new counter.
hg_atomic_cas32(rt, old, new) == IF rt = old THEN new ELSE rt
\* Whether that compare-and-swap succeeded.
cas_ok(rt, old) == rt = old
\* The values of the counter: residues modulo 2^TagWidth (the int32 counter
\* and the unsigned na_tag_t have the same bits).
TagModulus == 2 ^ TagWidth
\* hg_atomic_incr32(&request_tag): the new counter, which it also returns.
hg_atomic_incr32(rt) == (rt + 1) % TagModulus

\* hg_gen_request_tag run by one thread without interruption, on a class
\* whose request_max_tag is max:
\* [tag |-> the tag returned, rt |-> the counter afterwards].
hg_gen_request_tag_noreset(rt, max) ==
    [tag |-> hg_atomic_incr32(rt), rt |-> hg_atomic_incr32(rt)]
hg_gen_request_tag_old(rt, max) ==
    IF cas_ok(rt, max)
    THEN [tag |-> 0, rt |-> hg_atomic_cas32(rt, max, 0)]
    ELSE [tag |-> rt, rt |-> hg_atomic_incr32(rt)]
hg_gen_request_tag(rt, max) ==
    IF cas_ok(rt, max)
    THEN [tag |-> 0, rt |-> hg_atomic_cas32(rt, max, 0)]
    ELSE [tag |-> hg_atomic_incr32(rt), rt |-> hg_atomic_incr32(rt)]

\* ------------------------------------------------------------ return codes
HG_SUCCESS == "HG_SUCCESS"
HG_TIMEOUT == "HG_TIMEOUT"
HG_INVALID_PARAM == "HG_INVALID_PARAM"
HG_NOMEM_ERROR == "HG_NOMEM_ERROR"
HG_PROTOCOL_ERROR == "HG_PROTOCOL_ERROR"
HG_NO_MATCH == "HG_NO_MATCH"
HG_NA_ERROR == "HG_NA_ERROR"
NA_SUCCESS == "NA_SUCCESS"
NA_TIMEOUT == "NA_TIMEOUT"
NA_PROTOCOL_ERROR == "NA_PROTOCOL_ERROR"
\* Value of a result that no call has written yet.
NoRet == "none"

\* ------------------------------------------------------------ header codec
\* Cookies hg_proc_header_request_init may put in a request header.
Cookies == {0, 1}
EmptyBuf == << >>
\* hg_proc_header_request(buf, size, &header, HG_ENCODE): the bytes written.
hg_proc_header_request_encode(hdr) == << "HGREQ", hdr.id, hdr.cookie >>
\* hg_proc_header_request(..., HG_DECODE) followed by _verify: whether both
\* succeed (the buffer is complete and starts with the request magic).
hg_proc_header_request_ok(buf) == Len(buf) = 3 /\ buf[1] = "HGREQ"
\* The header after decoding: a field the buffer does not hold keeps the
\* value hg_proc_header_request_init(0, ...) gave it.
hg_proc_header_request_decode(buf) ==
    [ id |-> IF Len(buf) >= 2 THEN buf[2] ELSE 0,
      cookie |-> IF Len(buf) >= 3 THEN buf[3] ELSE 0 ]
\* What a request buffer may have become when it arrives damaged: cut
\* short (the decode fails) or with another magic (the verify fails).
Damage == {"truncated", "badmagic"}
Damaged(buf, d) ==
    IF d = "truncated" THEN SubSeq(buf, 1, Len(buf) - 1)
    ELSE [ buf EXCEPT ![1] = "XXREQ" ]
hg_proc_header_response_encode(hdr) == << "HGRSP", hdr.cookie >>
hg_proc_header_response_ok(buf) == Len(buf) = 2 /\ buf[1] = "HGRSP"
hg_proc_header_response_decode(buf) == [cookie |-> buf[2]]

\* ------------------------------------------------------------------ handles
\* A slot malloc has not handed out yet, and the fields of struct hg_handle.
\* History fields: kind (who allocated it), frees (calls of free on it),
\* urefs (references the user holds and has not released with HG_Destroy),
\* n_rpc, n_F, n_R (invocations of the RPC callback on the handle and of
\* the completion callbacks passed to HG_Forward_buf and HG_Respond_buf),
\* pushes (times put on a completion queue), drops (times popped by a
\* HG_Trigger that then failed before invoking the callback),
\* fwd/rsp (HG_Forward_buf / HG_Respond_buf called on it),
\* addr_frees (calls of NA_Addr_free on its address), dst and rid (the
\* address and id HG_Create was given), xid (on a listen handle: the origin
\* handle whose request it received), sentcookie (the cookie in the
\* request header HG_Forward_buf encoded), reqcookie (the cookie hg_process
\* read from the request header), rspcookie (the cookie hg_recv_output_cb
\* decoded from the response header), nafail (a network completion of the
\* response reported a failure for the handle), cbret (the ret of the
\* hg_cb_info passed to its completion callback), cbpush (see hg_complete),
\* rpost (the outcome of posting the expected receive in HG_Forward_buf:
\* "posted" or "failed"), reqsend (whether that receive was posted when the
\* unexpected send of the request was posted: "slot" or "noslot"),
\* pushno (its push was the pushno-th on the completion queue of its
\* context), cbseen (the number of callbacks HG_Trigger had invoked on the
\* context when it was pushed), cbno (its callback was the cbno-th that
\* HG_Trigger invoked on the context).
\* No cookie recorded yet.
NoCookie == 0 - 1
NoHandle ==
    [ alloc |-> FALSE, frees |-> 0, kind |-> "none", ctx |-> "NULL",
      callback |-> "NULL", id |-> 0, cookie |-> 0, tag |-> 0,
      addr |-> "NULL", addr_mine |-> FALSE,
      in_buf |-> EmptyBuf, out_buf |-> EmptyBuf, bufs |-> {},
      ref_count |-> 0,
      urefs |-> 0, n_rpc |-> 0, n_F |-> 0, n_R |-> 0, pushes |-> 0,
      drops |-> 0, fwd |-> FALSE, rsp |-> FALSE, addr_frees |-> 0,
      dst |-> "NULL", rid |-> 0, xid |-> 0,
      sentcookie |-> NoCookie, reqcookie |-> NoCookie,
      rspcookie |-> NoCookie, nafail |-> FALSE, cbret |-> NoRet,
      cbpush |-> FALSE, rpost |-> "none", reqsend |-> "none",
      pushno |-> 0, cbseen |-> 0, cbno |-> 0 ]

\* The state the C functions act on, as one record.
World ==
    [ h |-> handles, n |-> nalloc, cq |-> completion_queue,
      pl |-> processing_list, plm |-> processing_list_mutex,
      cqm |-> completion_queue_mutex,
      sig |-> cond_signalled, bulk |-> bulk_context, live |-> ctx_live,
      fm |-> func_map, rt |-> request_tag, mt |-> request_max_tag,
      ncq |-> na_cq,
      unexp |-> na_unexp, exp |-> na_exp, net |-> net,
      prog |-> prog, trig |-> trig, hist |-> hist, ret |-> NoRet ]

SetWorld(w) ==
    /\ handles' = w.h
    /\ nalloc' = w.n
    /\ completion_queue' = w.cq
    /\ processing_list' = w.pl
    /\ processing_list_mutex' = w.plm
    /\ completion_queue_mutex' = w.cqm
    /\ cond_signalled' = w.sig
    /\ bulk_context' = w.bulk
    /\ ctx_live' = w.live
    /\ func_map' = w.fm
    /\ request_tag' = w.rt
    /\ request_max_tag' = w.mt
    /\ na_cq' = w.ncq
    /\ na_unexp' = w.unexp
    /\ na_exp' = w.exp
    /\ net' = w.net
    /\ prog' = w.prog
    /\ trig' = w.trig
    /\ hist' = w.hist

\* hg_create: the next slot, with both buffers allocated (bufs) and
\* ref_count 1.
hg_create(w, p, kind) ==
    [ w EXCEPT
        !.n = @ + 1,
        !.h[w.n + 1] =
            [ NoHandle EXCEPT !.alloc = TRUE, !.kind = kind, !.ctx = p,
                              !.bufs = {"in", "out"}, !.ref_count = 1 ] ]

\* hg_destroy at reference count 0: NA_Addr_free if the address is the
\* handle's own, then free(hg_handle): the slot keeps only its history.
Freed_addr_always(hr) ==
    [ NoHandle EXCEPT
        !.frees = hr.frees + 1, !.kind = hr.kind, !.urefs = hr.urefs,
        !.n_rpc = hr.n_rpc, !.n_F = hr.n_F, !.n_R = hr.n_R,
        !.pushes = hr.pushes, !.drops = hr.drops, !.fwd = hr.fwd,
        !.rsp = hr.rsp, !.dst = hr.dst, !.rid = hr.rid, !.xid = hr.xid,
        !.sentcookie = hr.sentcookie, !.reqcookie = hr.reqcookie,
        !.rspcookie = hr.rspcookie, !.nafail = hr.nafail,
        !.cbret = hr.cbret, !.cbpush = hr.cbpush,
        !.rpost = hr.rpost, !.reqsend = hr.reqsend,
        !.pushno = hr.pushno, !.cbseen = hr.cbseen, !.cbno = hr.cbno,
        !.addr_frees = hr.addr_frees + (IF hr.addr # "NULL" THEN 1 ELSE 0) ]
Freed(hr) ==
    [ NoHandle EXCEPT
        !.frees = hr.frees + 1, !.kind = hr.kind, !.urefs = hr.urefs,
        !.n_rpc = hr.n_rpc, !.n_F = hr.n_F, !.n_R = hr.n_R,
        !.pushes = hr.pushes, !.drops = hr.drops, !.fwd = hr.fwd,
        !.rsp = hr.rsp, !.dst = hr.dst, !.rid = hr.rid, !.xid = hr.xid,
        !.sentcookie = hr.sentcookie, !.reqcookie = hr.reqcookie,
        !.rspcookie = hr.rspcookie, !.nafail = hr.nafail,
        !.cbret = hr.cbret, !.cbpush = hr.cbpush,
        !.rpost = hr.rpost, !.reqsend = hr.reqsend,
        !.pushno = hr.pushno, !.cbseen = hr.cbseen, !.cbno = hr.cbno,
        !.addr_frees = hr.addr_frees
            + (IF hr.addr # "NULL" /\ hr.addr_mine THEN 1 ELSE 0) ]

\* hg_destroy: decrement the reference count; free on reaching 0.
hg_destroy(w, x) ==
    IF w.h[x].ref_count - 1 # 0
    THEN [ w EXCEPT !.h[x].ref_count = @ - 1 ]
    ELSE [ w EXCEPT !.h[x] = Freed(@) ]

\* What hg_proc_buf_alloc may do in hg_create: both calls succeed, or the
\* one for the input or for the output buffer returns NULL.
BufOutcomes == {"ok", "noin", "noout"}
\* Values the ref_count of a handle may hold before hg_create sets it: the
\* memory comes from malloc and is not initialised.
UnsetRefCounts == {1, 2}
\* hg_create with outcome f of the buffer allocations. On a failure ret is
\* HG_NOMEM_ERROR and the label done calls hg_destroy on the handle, whose
\* ref_count was not set yet and holds g; hg_create then returns the pointer
\* (slot w.n + 1) all the same, never NULL.
hg_create_bufs(w, p, kind, f, g) ==
    IF f = "ok"
    THEN hg_create(w, p, kind)
    ELSE
      LET w1 == [ w EXCEPT
                    !.n = @ + 1,
                    !.h[w.n + 1] =
                        [ NoHandle EXCEPT
                            !.alloc = TRUE, !.kind = kind, !.ctx = p,
                            !.bufs = IF f = "noout" THEN {"in"} ELSE {},
                            !.ref_count = g ],
                    !.hist.nobuf = @ \cup {w.n + 1} ]
      IN  hg_destroy(w1, w1.n)

\* ---------------------------------------------------------------- NA layer
\* A completed NA operation waiting for NA_Trigger: the callback to run, its
\* argument (the handle), callback_info->ret and, for an unexpected receive,
\* the source, the tag and whether actual_buf_size equals the buffer size.
NaEvent(cb, x, ret, source, tag) ==
    [ cb |-> cb, h |-> x, ret |-> ret, source |-> source, tag |-> tag ]

\* NA_Msg_recv_unexpected: the receive is posted (op id in na_recv_op_id).
NA_Msg_recv_unexpected(w, p, x) ==
    [ w EXCEPT !.unexp[p] = Append(@, x) ]

\* NA_Msg_recv_expected: the receive is posted for (addr, tag).
NA_Msg_recv_expected(w, p, x, addr, tag) ==
    [ w EXCEPT !.exp = @ \cup {[h |-> x, p |-> p, addr |-> addr, tag |-> tag]},
               !.h[x].rpost = "posted" ]

\* Whether handle x has an expected receive posted for (addr, tag).
HasSlot(w, x, addr, tag) ==
    \E r \in w.exp : r.h = x /\ r.addr = addr /\ r.tag = tag

\* NA_Msg_send_unexpected / NA_Msg_send_expected: the message leaves and the
\* send completes, or (fail) the send completes with an error and nothing
\* leaves.  The completion waits on the NA completion queue of the sender.
NA_Msg_send(w, p, x, kind, cb, buf, addr, tag, fail) ==
    LET w0 == IF kind = "unexpected"
              THEN [ w EXCEPT !.h[x].reqsend =
                        IF HasSlot(w, x, addr, tag) THEN "slot" ELSE "noslot" ]
              ELSE w
    IN
    IF fail /\ w.hist.faults < MaxFaults
    THEN [ w0 EXCEPT
             !.ncq[p] = Append(@, NaEvent(cb, x, NA_PROTOCOL_ERROR, "NULL", 0)),
             !.hist.faults = @ + 1 ]
    ELSE [ w0 EXCEPT
             !.ncq[p] = Append(@, NaEvent(cb, x, NA_SUCCESS, "NULL", 0)),
             !.net = @ \cup {[ kind |-> kind, src |-> p, dst |-> addr,
                               tag |-> tag, buf |-> buf, from |-> x ]} ]

\* -------------------------------------------------------------------- mutexes
\* hg_thread_mutex_lock(m) returns when the mutex m is not held.
hg_thread_mutex_ignored(m) == TRUE
hg_thread_mutex_free(m) == ~m

\* --------------------------------------------------------- completion queue
hg_queue_push_head(q, x) == << x >> \o q
\* hg_queue_pop_tail: the value it returns and the queue it leaves.
hg_queue_pop_tail_value(q) == q[Len(q)]
hg_queue_pop_tail_keep(q) == q
hg_queue_pop_tail_rest(q) == SubSeq(q, 1, Len(q) - 1)
hg_queue_is_empty(q) == q = << >>

\* Trigger threads of the context of p blocked in hg_thread_cond_timedwait.
Waiters(w, p) == { t \in TThreads : TCtx(t) = p /\ w.trig[t].pc = "wait" }

\* The queue after the push of hg_complete.
hg_complete_push_tail(q, x) == q \o << x >>
hg_complete_push(q, x) == hg_queue_push_head(q, x)

\* hg_complete: under the completion-queue mutex, push the handle at the
\* head and signal the condition variable (one of the threads then waiting
\* is woken).  Called while the mutex is held, it never returns (history:
\* blocked).  History on the handle: cbpush, whether a HG_Trigger call on
\* the context was between its unlock and the end of a callback.
hg_complete(w, x) ==
    LET p == w.h[x].ctx IN
    IF ~hg_thread_mutex_free(w.cqm[p])
    THEN [ w EXCEPT !.hist.blocked = TRUE ]
    ELSE [ w EXCEPT
             !.cq[p] = hg_complete_push(@, x),
             !.sig[p] = @ \cup Waiters(w, p),
             !.h[x].pushes = @ + 1,
             !.h[x].cbpush = \E t \in TThreads :
                                TCtx(t) = p /\ w.trig[t].pc = "cb",
             !.h[x].pushno = w.hist.npush[p] + 1,
             !.h[x].cbseen = w.hist.ncb[p],
             !.hist.npush[p] = @ + 1,
             !.ret = HG_SUCCESS ]

\* ------------------------------------------------------- user code (history)
\* A user callback is invoked: count it and record the API call that ran it.
Invoked(w, x, cb, api) ==
    [ w EXCEPT
        !.h[x].n_rpc = @ + (IF cb = "rpc" THEN 1 ELSE 0),
        !.h[x].n_F = @ + (IF cb = "F" THEN 1 ELSE 0),
        !.h[x].n_R = @ + (IF cb = "R" THEN 1 ELSE 0),
        !.hist.callers[cb] = @ \cup {api} ]

\* HG_Destroy called by the user: one user reference is released.
HG_Destroy(w, x) ==
    hg_destroy([ w EXCEPT !.h[x].urefs = @ - 1 ], x)

\* HG_Respond_buf(handle, callback, arg).
\* response_header.cookie = hg_handle->cookie, after
\* hg_proc_header_response_init.
response_cookie_init(hr) == 0
response_cookie(hr) == hr.cookie

\* The tag HG_Respond_buf passes to NA_Msg_send_expected: hg_handle->tag,
\* which hg_recv_input_cb recorded from the unexpected receive.
HG_Respond_buf_tag_new(hr) == (hr.tag + 1) % TagModulus
HG_Respond_buf_tag(hr) == hr.tag

\* HG_Respond_buf(handle, callback, arg).
HG_Respond_buf(w, x, cb, ch) ==
    LET p == w.h[x].ctx
        w1 == [ w EXCEPT
                  !.h[x].callback = cb,
                  !.h[x].rsp = TRUE,
                  !.h[x].out_buf = hg_proc_header_response_encode(
                                       [cookie |-> response_cookie(w.h[x])]) ]
    IN  IF NA_Addr_is_self(p, w1.h[x].addr)
        THEN hg_complete(w1, x)
        ELSE [ NA_Msg_send(w1, p, x, "expected", "hg_send_output_cb",
                           w1.h[x].out_buf, w1.h[x].addr,
                           HG_Respond_buf_tag(w1.h[x]), ch.sfail)
               EXCEPT !.ret = HG_SUCCESS ]

\* The registered RPC callback (user code): it answers with HG_Respond_buf,
\* passing the completion callback R, and releases the reference the
\* dispatch gave it with HG_Destroy; ch.dfirst tells which comes first.
rpc_cb(w, x, api, ch) ==
    LET w0 == Invoked([ w EXCEPT !.h[x].urefs = @ + 1 ], x, "rpc", api)
    IN  IF ch.dfirst
        THEN [ HG_Respond_buf(HG_Destroy(w0, x), x, "R", ch)
               EXCEPT !.ret = HG_SUCCESS ]
        ELSE [ HG_Destroy(HG_Respond_buf(w0, x, "R", ch), x)
               EXCEPT !.ret = HG_SUCCESS ]

\* ------------------------------------------------------------------- registry
\* Function names the user registers, and hg_hash_string on them: "ping" and
\* "pang" collide, the hash of "zero" is 0.
Names == {"ping", "pang", "pong", "zero"}
hg_hash_string(name) ==
    CASE name = "ping" -> 1
      [] name = "pang" -> 1
      [] name = "pong" -> 2
      [] name = "zero" -> 0
\* Ids passed to HG_Register_data / HG_Registered_data.
DataIds == {0, 1, 2}
\* RPC callbacks, user data pointers and free callbacks the user passes.
RpcCbs == {"rpc", "rpc2"}
UserData == {"d1", "d2"}
FreeCbs == {"free_cb"}

\* hg_hash_table_insert(func_map, id, hg_rpc_info): an entry with the same
\* key is replaced.
hg_hash_table_insert(fm, id, info) ==
    [ i \in (DOMAIN fm) \cup {id} |-> IF i = id THEN info ELSE fm[i] ]
\* Whether hg_hash_table_lookup(func_map, &id) returns an entry. The key and
\* the record of a released entry are freed memory: the comparison with
\* the key may go either way (ub).
hg_hash_table_found(fm, id, ub) ==
    /\ id \in DOMAIN fm
    /\ fm[id].released => ub

\* HG_Register_rpc(hg_class, func_name, rpc_cb); ret is the id returned.
\* The label done frees the key and the record whenever ret is 0, also
\* after hg_hash_table_insert has stored them (hash 0).
HG_Register_rpc(w, p, name, cb, allocfail) ==
    IF allocfail /\ w.hist.faults < MaxFaults
    THEN [ w EXCEPT !.ret = 0, !.hist.faults = @ + 1 ]
    ELSE
      LET id == hg_hash_string(name)
          info == [ rpc_cb |-> cb, data |-> "NULL",
                    free_callback |-> "NULL", released |-> FALSE ]
          w1 == [ w EXCEPT !.fm[p] = hg_hash_table_insert(@, id, info) ]
      IN  IF id = 0
          THEN [ w1 EXCEPT !.fm[p][id].released = TRUE, !.ret = 0 ]
          ELSE [ w1 EXCEPT !.ret = id ]

\* HG_Registered_rpc(hg_class, func_name, &flag, &id): ret is
\* [flag, id] as written through the two pointers.
HG_Registered_rpc_anyid(w, p, name, ub) ==
    [ w EXCEPT !.ret = [ flag |-> hg_hash_table_found(w.fm[p],
                                       hg_hash_string(name), ub),
                         id |-> hg_hash_string(name) ] ]
HG_Registered_rpc(w, p, name, ub) ==
    LET func_id == hg_hash_string(name)
        flag == hg_hash_table_found(w.fm[p], func_id, ub)
    IN  [ w EXCEPT !.ret = [ flag |-> flag,
                             id |-> IF flag THEN func_id ELSE 0 ] ]

\* HG_Register_data(hg_class, id, data, free_callback). A store into a
\* released record writes freed memory and leaves the registry as it is.
HG_Register_data_all(w, p, id, data, fcb, ub) ==
    IF ~hg_hash_table_found(w.fm[p], id, ub)
    THEN [ w EXCEPT !.ret = HG_NO_MATCH ]
    ELSE [ w EXCEPT
             !.fm[p] = [ i \in DOMAIN @ |->
                           [ @[i] EXCEPT !.data = data,
                                         !.free_callback = fcb ] ],
             !.ret = HG_SUCCESS ]
HG_Register_data(w, p, id, data, fcb, ub) ==
    IF ~hg_hash_table_found(w.fm[p], id, ub)
    THEN [ w EXCEPT !.ret = HG_NO_MATCH ]
    ELSE IF w.fm[p][id].released
    THEN [ w EXCEPT !.ret = HG_SUCCESS ]
    ELSE [ w EXCEPT !.fm[p][id].data = data,
                    !.fm[p][id].free_callback = fcb,
                    !.ret = HG_SUCCESS ]

\* HG_Registered_data(hg_class, id): ret is the data pointer returned; read
\* from a released record it is whatever the freed memory holds.
HG_Registered_data(w, p, id, ub) ==
    IF ~hg_hash_table_found(w.fm[p], id, ub)
    THEN [ w EXCEPT !.ret = "NULL" ]
    ELSE IF w.fm[p][id].released
    THEN [ w EXCEPT !.ret = "garbage" ]
    ELSE [ w EXCEPT !.ret = w.fm[p][id].data ]

\* ------------------------------------------------------------------ processor
\* hg_atomic_incr32(&hg_handle->ref_count) before the RPC callback runs.
hg_process_ref(r) == r + 1

\* A processor that runs the RPC callback for every id, found or not.
hg_process_anyid(w, x, api, ch) ==
    LET hdr == hg_proc_header_request_decode(w.h[x].in_buf)
    IN  rpc_cb([ w EXCEPT !.h[x].id = hdr.id, !.h[x].cookie = hdr.cookie,
                          !.h[x].reqcookie = hdr.cookie,
                          !.h[x].ref_count = hg_process_ref(@) ],
               x, api, ch)

\* hg_process once the request header has been decoded and verified: store
\* id and cookie, look the id up in the function map, take a reference and
\* run the RPC callback.
hg_process_decoded(w, x, api, ch) ==
    LET p == w.h[x].ctx
        hdr == hg_proc_header_request_decode(w.h[x].in_buf)
        w1 == [ w EXCEPT !.h[x].id = hdr.id, !.h[x].cookie = hdr.cookie,
                         !.h[x].reqcookie = hdr.cookie ]
    IN  IF hdr.id \notin DOMAIN w1.fm[p]
        THEN [ w1 EXCEPT !.ret = HG_NO_MATCH ]
        ELSE IF w1.fm[p][hdr.id].rpc_cb = "NULL"
        THEN [ w1 EXCEPT !.ret = HG_INVALID_PARAM ]
        ELSE rpc_cb([ w1 EXCEPT !.h[x].ref_count = hg_process_ref(@) ],
                    x, api, ch)

\* hg_process: decode and verify the request header and, if that succeeds,
\* go on with the dispatch.
hg_process_unchecked(w, x, api, ch) == hg_process_decoded(w, x, api, ch)
hg_process(w, x, api, ch) ==
    IF ~hg_proc_header_request_ok(w.h[x].in_buf)
    THEN [ w EXCEPT !.ret = HG_PROTOCOL_ERROR ]
    ELSE hg_process_decoded(w, x, api, ch)

\* ------------------------------------------------------- network callbacks
hg_send_input_cb(w, ev) == w

\* hg_recv_input_cb: a request arrived on a listen handle.
hg_recv_input_cb(w, ev, api, ch) ==
    LET x == ev.h
        p == w.h[x].ctx
    IN  IF ev.ret # NA_SUCCESS
        THEN w
        ELSE
          LET w1 == [ w EXCEPT !.h[x].addr = ev.source,
                               !.h[x].addr_mine = TRUE,
                               !.h[x].tag = ev.tag ]
          IN  IF \A i \in 1..Len(w1.pl[p]) : w1.pl[p][i] # x
              THEN \* "Could not remove entry": leaves with the mutex held
                   [ w1 EXCEPT !.plm[p] = TRUE ]
              ELSE hg_process(
                       [ w1 EXCEPT !.pl[p] = SelectSeq(@, LAMBDA y : y # x) ],
                       x, api, ch)

\* hg_send_output_cb: the response has been sent.
hg_send_output_cb_drop(w, ev) == w
hg_send_output_cb(w, ev) ==
    IF ev.ret # NA_SUCCESS
    THEN [ w EXCEPT !.h[ev.h].nafail = TRUE ]
    ELSE hg_complete(w, ev.h)

\* hg_recv_output_cb: the response arrived on the origin.
hg_recv_output_cb_direct(w, ev) ==
    IF ev.ret # NA_SUCCESS
    THEN [ w EXCEPT !.h[ev.h].nafail = TRUE ]
    ELSE hg_destroy(Invoked(w, ev.h, w.h[ev.h].callback, "HG_Progress"), ev.h)
hg_recv_output_cb(w, ev) ==
    IF ev.ret # NA_SUCCESS
    THEN [ w EXCEPT !.h[ev.h].nafail = TRUE ]
    ELSE IF ~hg_proc_header_response_ok(w.h[ev.h].out_buf)
    THEN w
    ELSE hg_complete(
             [ w EXCEPT !.h[ev.h].rspcookie =
                   hg_proc_header_response_decode(w.h[ev.h].out_buf).cookie ],
             ev.h)

\* ---------------------------------------------------------------- listen pump
\* What may happen in one turn of the loop of hg_listen: all calls succeed,
\* hg_create returns NULL, hg_list_append returns NULL, or
\* NA_Msg_recv_unexpected fails.
ListenOutcomes == {"ok", "nohandle", "noappend", "nopost"}
\* The outcomes after which hg_listen leaves the loop (goto done).
ListenLeaves(f) == f \in {"nohandle", "nopost"}

\* One turn of the loop of hg_listen with outcome f: create a handle,
\* append it to the processing list and post an unexpected receive for it.
\* A failed append only sets ret: the receive is posted all the same.
hg_listen_body(w, p, f) ==
    IF f = "nohandle"
    THEN [ w EXCEPT !.ret = HG_NOMEM_ERROR ]
    ELSE
      LET w1 == hg_create(w, p, "listen")
          x == w1.n
          w2 == IF f = "noappend"
                THEN [ w1 EXCEPT !.ret = HG_NOMEM_ERROR ]
                ELSE [ w1 EXCEPT !.pl[p] = Append(@, x) ]
      IN  IF f = "nopost"
          THEN [ w2 EXCEPT !.ret = HG_NA_ERROR ]
          ELSE NA_Msg_recv_unexpected(w2, p, x)
\* The same turn when a buffer allocation of hg_create fails (f, g as in
\* hg_create_bufs): the pointer returned is not NULL, so it is appended
\* and a receive into its in_buf is posted.
hg_listen_body_bufs(w, p, f, g) ==
    LET w1 == hg_create_bufs(w, p, "listen", f, g)
        x == w1.n
    IN  NA_Msg_recv_unexpected([ w1 EXCEPT !.pl[p] = Append(@, x) ], p, x)

\* while (hg_list_length(processing_list) < HG_MAX_PROCESSING_LIST_SIZE)
hg_listen_test(w, p) == Len(w.pl[p]) < HG_MAX_PROCESSING_LIST_SIZE

\* hg_listen run without interruption and with no call failing: under the
\* processing-list mutex, while the list is short, create a handle, append
\* it and post an unexpected receive for it.
RECURSIVE hg_listen(_, _)
hg_listen(w, p) ==
    IF hg_listen_test(w, p)
    THEN hg_listen(hg_listen_body(w, p, "ok"), p)
    ELSE [ w EXCEPT !.ret = HG_SUCCESS ]

\* Handles of a kind allocated so far.
NKind(w, kind) == Cardinality({ x \in Handles : w.h[x].kind = kind })

\* ------------------------------------------------------------------ user API
\* hg_atomic_incr32(&hg_handle->ref_count) in HG_Create.
HG_Create_ref_none(r) == r
HG_Create_ref(r) == r + 1

\* HG_Create(hg_class, context, addr, id, &handle).
HG_Create(w, p, addr, id) ==
    LET w1 == hg_create(w, p, "origin")
        x == w1.n
    IN  [ w1 EXCEPT !.h[x].addr = addr,
                    !.h[x].id = id,
                    !.h[x].ref_count = HG_Create_ref(@),
                    !.h[x].urefs = 1,
                    !.h[x].dst = addr,
                    !.h[x].rid = id,
                    !.ret = HG_SUCCESS ]

\* HG_Create when hg_create has outcome f: "nohandle" (malloc of the handle
\* fails, hg_create returns NULL) gives HG_NOMEM_ERROR; otherwise the
\* pointer returned is not NULL and is used as a handle: addr and id are
\* written through it, its ref_count is incremented, it is stored in
\* *handle (urefs) and HG_SUCCESS is returned (cret).
HG_Create_bufs(w, p, addr, id, f, g) ==
    IF f = "nohandle"
    THEN [ w EXCEPT !.ret = HG_NOMEM_ERROR ]
    ELSE
      LET w1 == hg_create_bufs(w, p, "origin", f, g)
          x == w1.n
      IN  [ w1 EXCEPT !.h[x].addr = addr,
                      !.h[x].id = id,
                      !.h[x].ref_count = HG_Create_ref(@),
                      !.h[x].urefs = 1,
                      !.h[x].dst = addr,
                      !.h[x].rid = id,
                      !.hist.cret[x] = HG_SUCCESS,
                      !.ret = HG_SUCCESS ]

\* HG_Forward_buf to a remote address, once the tag is set: post the
\* expected receive for the response and then the unexpected send of the
\* request; if the receive cannot be posted (ch.rfail), return HG_NA_ERROR.
HG_Forward_buf_post_send_first(w, p, x, ch) ==
    LET w3 == NA_Msg_send(w, p, x, "unexpected", "hg_send_input_cb",
                          w.h[x].in_buf, w.h[x].addr, w.h[x].tag, ch.sfail)
    IN  [ NA_Msg_recv_expected(w3, p, x, w.h[x].addr, w.h[x].tag)
          EXCEPT !.ret = HG_SUCCESS ]
HG_Forward_buf_post(w, p, x, ch) ==
    IF ch.rfail /\ w.hist.faults < MaxFaults
    THEN [ w EXCEPT !.h[x].rpost = "failed",
                    !.hist.faults = @ + 1,
                    !.ret = HG_NA_ERROR ]
    ELSE
      LET w3 == NA_Msg_recv_expected(w, p, x, w.h[x].addr, w.h[x].tag)
      IN  [ NA_Msg_send(w3, p, x, "unexpected", "hg_send_input_cb",
                        w3.h[x].in_buf, w3.h[x].addr, w3.h[x].tag, ch.sfail)
            EXCEPT !.ret = HG_SUCCESS ]

\* HG_Forward_buf(handle, callback, arg, extra_in_handle); cookie is the one
\* hg_proc_header_request_init puts in the header.
HG_Forward_buf(w, x, cb, cookie, ch) ==
    LET p == w.h[x].ctx
        w1 == [ w EXCEPT
                  !.h[x].callback = cb,
                  !.h[x].fwd = TRUE,
                  !.h[x].sentcookie = cookie,
                  !.h[x].in_buf = hg_proc_header_request_encode(
                                      [id |-> w.h[x].id, cookie |-> cookie]) ]
    IN  IF NA_Addr_is_self(p, w1.h[x].addr)
        THEN hg_process(w1, x, "HG_Forward_buf", ch)
        ELSE
          LET g == hg_gen_request_tag(w1.rt[p], w1.mt[p])
              w2 == [ w1 EXCEPT !.rt[p] = g.rt, !.h[x].tag = g.tag ]
          IN  HG_Forward_buf_post(w2, p, x, ch)

\* HG_Bulk_context_destroy(bulk_context): succeeds, also on NULL.
HG_Bulk_context_destroy(b) == HG_SUCCESS

\* Whether HG_Context_destroy goes on to free the context.
ctx_destroy_frees_always(q) == TRUE
ctx_destroy_frees(q) == hg_queue_is_empty(q)

\* HG_Context_destroy(context).
HG_Context_destroy(w, p) ==
    LET ne == ~hg_queue_is_empty(w.cq[p]) IN
    IF HG_Bulk_context_destroy(w.bulk[p]) # HG_SUCCESS
    THEN [ w EXCEPT !.ret = HG_Bulk_context_destroy(w.bulk[p]) ]
    ELSE
      LET w1 == [ w EXCEPT !.bulk[p] = "NULL" ] IN
      IF ~ctx_destroy_frees(w1.cq[p])
      THEN [ w1 EXCEPT
               !.ret = HG_PROTOCOL_ERROR,
               !.hist.cd[p] = Append(@, [ne |-> ne, ret |-> HG_PROTOCOL_ERROR]) ]
      ELSE [ w1 EXCEPT
               !.live[p] = FALSE,
               !.ret = HG_SUCCESS,
               !.hist.cd[p] = Append(@, [ne |-> ne, ret |-> HG_SUCCESS]) ]

\* ------------------------------------------------------------------- trigger
\* Locals of one HG_Trigger call: pc, the handle popped (0: none), count,
\* max_count, *actual_count, and (history) whether a signal woke the thread
\* during the call.
\* *actual_count before HG_Trigger has written it: it holds whatever the
\* caller left there.
Unwritten == 0 - 1

IdleTrig ==
    [ pc |-> "idle", h |-> 0, count |-> 0, max |-> 0,
      actual |-> Unwritten, woke |-> FALSE ]

\* HG_Trigger returns ret, with actual in the caller's variable; the history
\* keeps what the last call that returned did.
trigger_return(w, t, ret, actual) ==
    [ w EXCEPT
        !.trig[t] = IdleTrig,
        !.hist.tr = [ ret |-> ret, count |-> w.trig[t].count,
                      actual |-> actual, woke |-> w.trig[t].woke ] ]

\* hg_thread_mutex_unlock(&context->completion_queue_mutex) of HG_Trigger
\* after the pop and before the callback: the mutex afterwards.
HG_Trigger_unlock_late(m) == m
HG_Trigger_unlock(m) == FALSE

\* Head of the while (count < max_count) loop of HG_Trigger and the section
\* it runs under the completion-queue mutex (released while it waits).
trigger_top(w, t) ==
    LET p == TCtx(t)
        l == w.trig[t]
    IN  IF ~(l.count < l.max)
        THEN \* if (actual_count) *actual_count = count;
             trigger_return(w, t, HG_SUCCESS, l.count)
        ELSE IF hg_queue_is_empty(w.cq[p])
        THEN [ w EXCEPT !.trig[t].pc = "wait" ]
        ELSE [ w EXCEPT
                 !.trig[t] = [ l EXCEPT
                                 !.pc = "cb",
                                 !.h = hg_queue_pop_tail_value(w.cq[p]) ],
                 !.cq[p] = hg_queue_pop_tail_rest(@),
                 !.cqm[p] = HG_Trigger_unlock(TRUE) ]

\* hg_cb_info->ret as HG_Trigger fills it in for the handle.
hg_cb_info_ret(hr) == HG_SUCCESS

\* The part of the loop body HG_Trigger runs with the mutex released.
trigger_cb(w, t, allocfail) ==
    LET x == w.trig[t].h IN
    IF allocfail /\ w.hist.faults < MaxFaults
    THEN \* malloc of hg_cb_info failed
         trigger_return([ w EXCEPT !.h[x].drops = @ + 1,
                                   !.hist.faults = @ + 1 ],
                        t, HG_NOMEM_ERROR, w.trig[t].actual)
    ELSE
      LET p == TCtx(t)
          w1 == IF w.h[x].callback # "NULL"
                THEN Invoked([ w EXCEPT !.h[x].cbret = hg_cb_info_ret(@),
                                        !.h[x].cbno = w.hist.ncb[p] + 1,
                                        !.hist.ncb[p] = @ + 1 ],
                             x, w.h[x].callback, "HG_Trigger")
                ELSE w
          w2 == hg_destroy(w1, x)
      IN  [ w2 EXCEPT !.trig[t] = [ @ EXCEPT !.pc = "top", !.h = 0,
                                             !.count = @ + 1 ] ]

\* ------------------------------------------------------------------ progress
\* NA_Trigger(na_context, 0, 1, &count) with a completed operation waiting:
\* it is taken off the NA completion queue and its callback runs.
NA_Trigger(w, p, api, ch) ==
    LET ev == Head(w.ncq[p])
        w1 == [ w EXCEPT !.ncq[p] = Tail(@) ]
    IN  CASE ev.cb = "hg_send_input_cb" -> hg_send_input_cb(w1, ev)
          [] ev.cb = "hg_recv_input_cb" -> hg_recv_input_cb(w1, ev, api, ch)
          [] ev.cb = "hg_send_output_cb" -> hg_send_output_cb(w1, ev)
          [] ev.cb = "hg_recv_output_cb" -> hg_recv_output_cb(w1, ev)

\* Whether hg_recv_input_cb, run for ev, locks the processing-list mutex.
LocksList(ev) == ev.cb = "hg_recv_input_cb" /\ ev.ret = NA_SUCCESS

\* NA_Progress completes the head unexpected receive of p with message m.
NA_deliver_unexpected(w, p, m, fail) ==
    LET x == Head(w.unexp[p])
        w1 == [ w EXCEPT !.unexp[p] = Tail(@), !.net = @ \ {m} ]
    IN  IF fail /\ w.hist.faults < MaxFaults
        THEN [ w1 EXCEPT
                 !.ncq[p] = Append(@, NaEvent("hg_recv_input_cb", x,
                                              NA_PROTOCOL_ERROR, "NULL", 0)),
                 !.hist.faults = @ + 1 ]
        ELSE [ w1 EXCEPT
                 !.h[x].in_buf = m.buf,
                 !.h[x].xid = m.from,
                 !.ncq[p] = Append(@, NaEvent("hg_recv_input_cb", x,
                                              NA_SUCCESS, m.src, m.tag)) ]

\* NA_Progress completes the head unexpected receive of p with message m,
\* whose buffer arrives damaged.
NA_deliver_damaged(w, p, m, d) ==
    LET x == Head(w.unexp[p]) IN
    [ w EXCEPT
        !.unexp[p] = Tail(@), !.net = @ \ {m},
        !.h[x].in_buf = Damaged(m.buf, d),
        !.h[x].xid = m.from,
        !.ncq[p] = Append(@, NaEvent("hg_recv_input_cb", x,
                                     NA_SUCCESS, m.src, m.tag)),
        !.hist.faults = @ + 1 ]

\* NA_Progress completes the posted expected receive r with message m.
NA_deliver_expected(w, p, m, r, fail) ==
    LET w1 == [ w EXCEPT !.exp = @ \ {r}, !.net = @ \ {m} ]
    IN  IF fail /\ w.hist.faults < MaxFaults
        THEN [ w1 EXCEPT
                 !.ncq[p] = Append(@, NaEvent("hg_recv_output_cb", r.h,
                                              NA_PROTOCOL_ERROR, "NULL", 0)),
                 !.hist.faults = @ + 1 ]
        ELSE [ w1 EXCEPT
                 !.h[r.h].out_buf = m.buf,
                 !.ncq[p] = Append(@, NaEvent("hg_recv_output_cb", r.h,
                                              NA_SUCCESS, "NULL", 0)) ]

\* hg_progress after the NA_Trigger loop: what it returns given the result
\* of NA_Progress (which is not called when the queue is non-empty).
hg_progress_ret_timeout(q, na_ret) ==
    IF ~hg_queue_is_empty(q) THEN HG_SUCCESS
    ELSE IF na_ret = NA_SUCCESS THEN HG_SUCCESS
    ELSE HG_TIMEOUT
hg_progress_ret(q, na_ret) ==
    IF ~hg_queue_is_empty(q) THEN HG_SUCCESS
    ELSE IF na_ret = NA_SUCCESS THEN HG_SUCCESS
    ELSE IF na_ret = NA_TIMEOUT THEN HG_TIMEOUT
    ELSE HG_NA_ERROR

\* What HG_Progress returns when hg_listen returned lret (NoRet: not
\* called) and hg_progress returned pret: ret is assigned the one and then
\* the other.
HG_Progress_ret(lret, pret) == pret

\* HG_Progress of thread t returns, hg_progress having returned ret.
\* History: whether hg_progress found the completion queue non-empty (qne),
\* what NA_Progress returned (na, "none" when it was not called) and what
\* hg_listen had returned (lret).
Returned(w, t, ret, qne, na) ==
    [ w EXCEPT !.prog[t] = [ pc |-> "idle",
                             ret |-> HG_Progress_ret(w.prog[t].lret, ret),
                             qne |-> qne, na |-> na,
                             lret |-> w.prog[t].lret ] ]

\* -------------------------------------------------------------------- actions
\* Choices(F): what the environment decides inside one step: whether the
\* RPC callback calls HG_Destroy before HG_Respond_buf, and (from F) whether
\* a send posted in the step completes with an error and whether posting
\* the expected receive of HG_Forward_buf fails.
Choices(F) == [ dfirst : BOOLEAN, sfail : F, rfail : F ]
Faulty == BOOLEAN
NoFault == {FALSE}

\* The user of "O" calls HG_Create.
Create(addr, id, lim) ==
    /\ ctx_live["O"]
    /\ NKind(World, "origin") < lim
    /\ SetWorld(HG_Create(World, "O", addr, id))
    /\ UNCHANGED tagt

\* The user of "O" calls HG_Create and hg_create has outcome f.
CreateBufs(addr, id, f, g, lim) ==
    /\ ctx_live["O"]
    /\ f # "nohandle" => NKind(World, "origin") < lim
    /\ f # "ok" => hist.faults < MaxFaults
    /\ SetWorld([ HG_Create_bufs(World, "O", addr, id, f, g) EXCEPT
                    !.hist.faults = @ + (IF f = "ok" THEN 0 ELSE 1) ])
    /\ UNCHANGED tagt

\* The user calls HG_Forward_buf on a handle it created, passing F.
Forward(x, cookie, ch) ==
    /\ handles[x].alloc /\ handles[x].kind = "origin"
    /\ ~handles[x].fwd /\ handles[x].urefs >= 1
    /\ ctx_live[handles[x].ctx]
    /\ ch.sfail => hist.faults < MaxFaults
    /\ ch.rfail => /\ hist.faults < MaxFaults
                   /\ ~ch.sfail
                   /\ ~NA_Addr_is_self(handles[x].ctx, handles[x].addr)
    /\ SetWorld(HG_Forward_buf(World, x, "F", cookie, ch))
    /\ UNCHANGED tagt

\* The user releases its reference on a handle it created.
Destroy(x) ==
    /\ handles[x].alloc /\ handles[x].kind = "origin"
    /\ handles[x].urefs >= 1
    /\ SetWorld(HG_Destroy(World, x))
    /\ UNCHANGED tagt

\* Handle x of the context of p has an unexpected receive outstanding:
\* posted, or completed with its callback still to be run by NA_Trigger.
ReceiveOutstanding(w, p, x) ==
    \/ \E i \in 1..Len(w.unexp[p]) : w.unexp[p][i] = x
    \/ \E i \in 1..Len(w.ncq[p]) :
          w.ncq[p][i].h = x /\ w.ncq[p][i].cb = "hg_recv_input_cb"
\* The processing list of p is full and each handle on it has a receive
\* outstanding.
PumpedUp(w, p) ==
    /\ Len(w.pl[p]) = HG_MAX_PROCESSING_LIST_SIZE
    /\ \A i \in 1..Len(w.pl[p]) : ReceiveOutstanding(w, p, w.pl[p][i])

\* Thread t calls HG_Progress, alone on its context: the listen pump runs
\* from lock to unlock if the class is listening.
\* History: whether the pump left the processing list pumped up.
ProgressListen(t) ==
    LET p == PCtx(t) IN
    /\ ctx_live[p] /\ prog[t].pc = "idle"
    /\ NA_Is_listening(p) =>
          /\ hg_thread_mutex_free(processing_list_mutex[p])
          /\ NKind(World, "listen") + HG_MAX_PROCESSING_LIST_SIZE
                - Len(processing_list[p]) <= MaxListen
    /\ LET w == IF NA_Is_listening(p) THEN hg_listen(World, p) ELSE World
       IN  SetWorld([ w EXCEPT
                        !.prog[t] = [ pc |-> "trigger", ret |-> NoRet,
                                      qne |-> FALSE, na |-> "none",
                                      lret |-> IF NA_Is_listening(p)
                                               THEN w.ret ELSE NoRet ],
                        !.hist.pumped = IF NA_Is_listening(p)
                                        THEN PumpedUp(w, p) ELSE @ ])
    /\ UNCHANGED tagt

\* Thread t calls HG_Progress on a listening class while other threads may
\* be inside HG_Progress on the same context: hg_listen takes the
\* processing-list mutex.
ListenLock(t) ==
    LET p == PCtx(t) IN
    /\ ctx_live[p] /\ prog[t].pc = "idle"
    /\ NA_Is_listening(p)
    /\ hg_thread_mutex_free(processing_list_mutex[p])
    /\ SetWorld([ World EXCEPT
                    !.plm[p] = TRUE,
                    !.prog[t] = [ pc |-> "test", ret |-> NoRet,
                                  qne |-> FALSE, na |-> "none",
                                  lret |-> HG_SUCCESS ] ])
    /\ UNCHANGED tagt

\* hg_listen evaluates the loop condition: it enters the body, or unlocks
\* the mutex and returns, and hg_progress starts.
ListenTest(t) ==
    LET p == PCtx(t) IN
    /\ prog[t].pc = "test"
    /\ SetWorld(IF hg_listen_test(World, p)
                THEN [ World EXCEPT !.prog[t].pc = "body" ]
                ELSE [ World EXCEPT !.plm[p] = FALSE,
                                    !.prog[t].pc = "trigger" ])
    /\ UNCHANGED tagt

\* hg_listen runs the loop body with outcome f; on hg_create or post
\* failure it unlocks the mutex and returns. A failure sets the ret that
\* hg_listen returns (lret).
ListenBody(t, f) ==
    LET p == PCtx(t) IN
    /\ prog[t].pc = "body"
    /\ f # "nohandle" => NKind(World, "listen") < MaxListen
    /\ f # "ok" => hist.faults < MaxFaults
    /\ LET w == hg_listen_body(World, p, f)
           w1 == [ w EXCEPT !.hist.faults = @ + (IF f = "ok" THEN 0 ELSE 1) ]
           w2 == [ w1 EXCEPT !.prog[t].lret = IF f = "ok" THEN @ ELSE w.ret ]
       IN  SetWorld(IF ListenLeaves(f)
                    THEN [ w2 EXCEPT !.plm[p] = FALSE,
                                     !.prog[t].pc = "trigger" ]
                    ELSE [ w2 EXCEPT !.prog[t].pc = "test" ])
    /\ UNCHANGED tagt

\* hg_listen runs the loop body and a buffer allocation of hg_create
\* fails.
ListenBodyBufs(t, f, g) ==
    LET p == PCtx(t) IN
    /\ prog[t].pc = "body"
    /\ f # "ok"
    /\ NKind(World, "listen") < MaxListen
    /\ hist.faults < MaxFaults
    /\ SetWorld([ hg_listen_body_bufs(World, p, f, g) EXCEPT
                    !.hist.faults = @ + 1,
                    !.prog[t].pc = "test" ])
    /\ UNCHANGED tagt

\* hg_progress: one turn of the NA_Trigger loop that ran a callback.
ProgressTrigger(t, ch) ==
    LET p == PCtx(t) IN
    /\ prog[t].pc = "trigger"
    /\ na_cq[p] # << >>
    /\ LocksList(Head(na_cq[p])) =>
           hg_thread_mutex_free(processing_list_mutex[p])
    /\ ch.sfail => hist.faults < MaxFaults
    /\ ~ch.rfail
    /\ SetWorld(NA_Trigger(World, p, "HG_Progress", ch))
    /\ UNCHANGED tagt

\* hg_progress: NA_Trigger reported no event and the completion queue is
\* not empty: return at once.
ProgressQueued(t) ==
    LET p == PCtx(t) IN
    /\ prog[t].pc = "trigger"
    /\ na_cq[p] = << >>
    /\ hg_thread_mutex_free(completion_queue_mutex[p])
    /\ ~hg_queue_is_empty(completion_queue[p])
    /\ SetWorld(Returned(World, t,
                          hg_progress_ret(completion_queue[p], "none"),
                          TRUE, "none"))
    /\ UNCHANGED tagt

\* hg_progress: NA_Progress completes an unexpected receive.
ProgressRecvUnexpected(t, m, fail) ==
    LET p == PCtx(t) IN
    /\ prog[t].pc = "trigger"
    /\ na_cq[p] = << >>
    /\ hg_thread_mutex_free(completion_queue_mutex[p])
    /\ hg_queue_is_empty(completion_queue[p])
    /\ m \in net /\ m.dst = p /\ m.kind = "unexpected"
    /\ na_unexp[p] # << >>
    /\ fail => hist.faults < MaxFaults
    /\ SetWorld(Returned(NA_deliver_unexpected(World, p, m, fail), t,
                          hg_progress_ret(completion_queue[p], NA_SUCCESS),
                          FALSE, NA_SUCCESS))
    /\ UNCHANGED tagt

\* hg_progress: NA_Progress completes an unexpected receive with a damaged
\* request.
ProgressRecvDamaged(t, m, d) ==
    LET p == PCtx(t) IN
    /\ prog[t].pc = "trigger"
    /\ na_cq[p] = << >>
    /\ hg_thread_mutex_free(completion_queue_mutex[p])
    /\ hg_queue_is_empty(completion_queue[p])
    /\ m \in net /\ m.dst = p /\ m.kind = "unexpected"
    /\ na_unexp[p] # << >>
    /\ hist.faults < MaxFaults
    /\ SetWorld(Returned(NA_deliver_damaged(World, p, m, d), t,
                          hg_progress_ret(completion_queue[p], NA_SUCCESS),
                          FALSE, NA_SUCCESS))
    /\ UNCHANGED tagt

\* hg_progress: NA_Progress completes an expected receive.
ProgressRecvExpected(t, m, r, fail) ==
    LET p == PCtx(t) IN
    /\ prog[t].pc = "trigger"
    /\ na_cq[p] = << >>
    /\ hg_thread_mutex_free(completion_queue_mutex[p])
    /\ hg_queue_is_empty(completion_queue[p])
    /\ m \in net /\ m.dst = p /\ m.kind = "expected"
    /\ r \in na_exp /\ r.p = p /\ r.addr = m.src /\ r.tag = m.tag
    /\ fail => hist.faults < MaxFaults
    /\ SetWorld(Returned(NA_deliver_expected(World, p, m, r, fail), t,
                          hg_progress_ret(completion_queue[p], NA_SUCCESS),
                          FALSE, NA_SUCCESS))
    /\ UNCHANGED tagt

\* hg_progress: NA_Progress times out.
ProgressTimeout(t) ==
    LET p == PCtx(t) IN
    /\ prog[t].pc = "trigger"
    /\ na_cq[p] = << >>
    /\ hg_thread_mutex_free(completion_queue_mutex[p])
    /\ hg_queue_is_empty(completion_queue[p])
    /\ SetWorld(Returned(World, t,
                          hg_progress_ret(completion_queue[p], NA_TIMEOUT),
                          FALSE, NA_TIMEOUT))
    /\ UNCHANGED tagt

\* hg_progress: NA_Progress fails with an error other than a timeout.
ProgressNaError(t) ==
    LET p == PCtx(t) IN
    /\ prog[t].pc = "trigger"
    /\ na_cq[p] = << >>
    /\ hg_thread_mutex_free(completion_queue_mutex[p])
    /\ hg_queue_is_empty(completion_queue[p])
    /\ hist.faults < MaxFaults
    /\ SetWorld(Returned([ World EXCEPT !.hist.faults = @ + 1 ], t,
                          hg_progress_ret(completion_queue[p],
                                          NA_PROTOCOL_ERROR),
                          FALSE, NA_PROTOCOL_ERROR))
    /\ UNCHANGED tagt

\* HG_Trigger is called with max_count maxc.
TriggerCall(t, maxc) ==
    /\ ctx_live[TCtx(t)] /\ trig[t].pc = "idle"
    /\ hg_thread_mutex_free(completion_queue_mutex[TCtx(t)])
    /\ SetWorld(trigger_top(
           [ World EXCEPT !.trig[t] = [ IdleTrig EXCEPT !.max = maxc ] ], t))
    /\ UNCHANGED tagt

\* HG_Trigger goes round its loop.
TriggerTop(t) ==
    /\ trig[t].pc = "top"
    /\ trig[t].count < trig[t].max =>
           hg_thread_mutex_free(completion_queue_mutex[TCtx(t)])
    /\ SetWorld(trigger_top(World, t))
    /\ UNCHANGED tagt

\* hg_thread_cond_timedwait returns because of a signal; the loop tests
\* completion_queue_empty, which still holds TRUE, and waits again.
TriggerWake(t) ==
    /\ trig[t].pc = "wait"
    /\ t \in cond_signalled[TCtx(t)]
    /\ hg_thread_mutex_free(completion_queue_mutex[TCtx(t)])
    /\ SetWorld([ World EXCEPT !.sig[TCtx(t)] = {},
                               !.trig[t].woke = TRUE ])
    /\ UNCHANGED tagt

\* hg_thread_cond_timedwait times out: HG_Trigger returns HG_TIMEOUT.
TriggerTimeout(t) ==
    /\ trig[t].pc = "wait"
    /\ cond_signalled[TCtx(t)] # {t}
    /\ hg_thread_mutex_free(completion_queue_mutex[TCtx(t)])
    /\ SetWorld(trigger_return([ World EXCEPT !.sig[TCtx(t)] = @ \ {t} ],
                                t, HG_TIMEOUT, trig[t].actual))
    /\ UNCHANGED tagt

\* HG_Trigger runs the callback of the handle it popped and releases it.
TriggerCallback(t, allocfail) ==
    /\ trig[t].pc = "cb"
    /\ allocfail => hist.faults < MaxFaults
    /\ SetWorld(trigger_cb(World, t, allocfail))
    /\ UNCHANGED tagt

\* The user calls HG_Context_destroy, with no thread inside the context.
ContextDestroy(p) ==
    /\ ctx_live[p]
    /\ Len(hist.cd[p]) < MaxCtxDestroy
    /\ \A t \in PThreads : PCtx(t) = p => prog[t].pc = "idle"
    /\ \A t \in TThreads : TCtx(t) = p => trig[t].pc = "idle"
    /\ hg_thread_mutex_free(completion_queue_mutex[p])
    /\ SetWorld(HG_Context_destroy(World, p))
    /\ UNCHANGED tagt

\* ------------------------------------------------------------------- registry
\* What the history keeps of the last registry call: the call and its
\* argument (key), what it returned (id, flag, code, data) and what held
\* when it was made and when it returned.
NoRegOp ==
    [ op |-> "none", key |-> "", id |-> 0, flag |-> FALSE,
      code |-> HG_SUCCESS, data |-> "NULL", reg |-> FALSE, live |-> FALSE,
      absent |-> FALSE, same |-> TRUE, others |-> TRUE, stored |-> TRUE,
      twice |-> FALSE, rep |-> TRUE ]

\* Entries of a registry other than the one of id.
OtherEntries(fm, id) == [ i \in (DOMAIN fm) \ {id} |-> fm[i] ]
\* id has an entry that was not released / has no entry.
LiveEntry(fm, id) == id \in DOMAIN fm /\ ~fm[id].released
NoEntry(fm, id) == id \notin DOMAIN fm

\* The user of "O" calls HG_Register_rpc. History: the names for which an
\* id was returned, and in last: the id returned, whether the id had a live
\* entry before (live), whether that entry is as it was (same), and whether
\* a non-zero id returned is the key of a live entry with rpc_cb (stored).
RegisterRpc(name, cb, allocfail) ==
    /\ allocfail => hist.faults < MaxFaults
    /\ LET w == HG_Register_rpc(World, "O", name, cb, allocfail)
           id == hg_hash_string(name)
           live == LiveEntry(func_map["O"], id)
       IN  SetWorld([ w EXCEPT
             !.hist.registered = IF w.ret # 0 THEN @ \cup {name} ELSE @,
             !.hist.entrydata[id] = IF allocfail THEN @ ELSE "NULL",
             !.hist.last =
                 [ NoRegOp EXCEPT
                     !.op = "HG_Register_rpc", !.key = name, !.id = w.ret,
                     !.live = live,
                     !.stored = (w.ret # 0) =>
                                    ( /\ LiveEntry(w.fm["O"], w.ret)
                                      /\ w.fm["O"][w.ret].rpc_cb = cb ),
                     !.same = live => ( LiveEntry(w.fm["O"], id)
                                        /\ w.fm["O"][id] = func_map["O"][id] ),
                     !.others = OtherEntries(w.fm["O"], id)
                                = OtherEntries(func_map["O"], id) ] ])
    /\ UNCHANGED tagt

\* The user calls HG_Registered_rpc. History: the answer (flag, id),
\* whether the name was registered (reg) or its id had no entry (absent)
\* when the call was made, whether the registry is as before (same), and
\* whether the call repeats the previous one (twice) with the same answer
\* (rep).
RegisteredRpc(name, ub) ==
    /\ LET w == HG_Registered_rpc(World, "O", name, ub)
           id == hg_hash_string(name)
           twice == hist.last.op = "HG_Registered_rpc" /\ hist.last.key = name
       IN  SetWorld([ w EXCEPT
             !.hist.last =
                 [ NoRegOp EXCEPT
                     !.op = "HG_Registered_rpc", !.key = name,
                     !.flag = w.ret.flag, !.id = w.ret.id,
                     !.reg = name \in hist.registered,
                     !.absent = NoEntry(func_map["O"], id),
                     !.same = w.fm = func_map,
                     !.twice = twice,
                     !.rep = twice => ( w.ret.flag = hist.last.flag
                                        /\ w.ret.id = hist.last.id ) ] ])
    /\ UNCHANGED tagt

\* The user calls HG_Register_data. History: the data last attached to the
\* present entry of the id, and in last: the code returned, whether the
\* entry now holds the data and the free callback (stored), whether the
\* other entries (others) and the whole registry (same) are as before.
RegisterData(id, data, fcb, ub) ==
    /\ LET w == HG_Register_data(World, "O", id, data, fcb, ub)
           live == LiveEntry(func_map["O"], id)
       IN  SetWorld([ w EXCEPT
             !.hist.entrydata[id] = IF live /\ w.ret = HG_SUCCESS
                                    THEN data ELSE @,
             !.hist.last =
                 [ NoRegOp EXCEPT
                     !.op = "HG_Register_data", !.id = id, !.code = w.ret,
                     !.data = data,
                     !.live = live,
                     !.absent = NoEntry(func_map["O"], id),
                     !.stored = live => ( LiveEntry(w.fm["O"], id)
                                          /\ w.fm["O"][id].data = data
                                          /\ w.fm["O"][id].free_callback = fcb ),
                     !.others = OtherEntries(w.fm["O"], id)
                                = OtherEntries(func_map["O"], id),
                     !.same = w.fm = func_map ] ])
    /\ UNCHANGED tagt

\* The user calls HG_Registered_data. History in last: the pointer returned
\* (data) and whether it is the data last attached to the entry (stored).
RegisteredData(id, ub) ==
    /\ LET w == HG_Registered_data(World, "O", id, ub) IN
       SetWorld([ w EXCEPT
             !.hist.last =
                 [ NoRegOp EXCEPT
                     !.op = "HG_Registered_data", !.id = id,
                     !.data = w.ret,
                     !.live = LiveEntry(func_map["O"], id),
                     !.absent = NoEntry(func_map["O"], id),
                     !.stored = w.ret = hist.entrydata[id],
                     !.same = w.fm = func_map ] ])
    /\ UNCHANGED tagt

\* ---------------------------------------------------------- tag allocator
\* A thread enters hg_gen_request_tag on the class of "O": the
\* compare-and-swap.
TagCas(u) ==
    /\ tagt[u].pc = "idle"
    /\ hist.tagcalls < MaxTagCalls
    /\ request_tag' = [ request_tag EXCEPT
                           !["O"] = hg_atomic_cas32(@, request_max_tag["O"], 0) ]
    /\ tagt' = [ tagt EXCEPT
                    ![u] = IF cas_ok(request_tag["O"], request_max_tag["O"])
                           THEN [ pc |-> "idle", tag |-> 0 ]
                           ELSE [ pc |-> "incr", tag |-> @.tag ] ]
    /\ hist' = [ hist EXCEPT !.tagcalls = @ + 1 ]
    /\ UNCHANGED << handles, nalloc, completion_queue, processing_list,
                    processing_list_mutex, completion_queue_mutex,
                    cond_signalled, bulk_context,
                    ctx_live, func_map, request_max_tag, na_cq, na_unexp,
                    na_exp, net, prog, trig >>

\* The thread's atomic increment, whose result is the tag.
TagIncr(u) ==
    /\ tagt[u].pc = "incr"
    /\ request_tag' = [ request_tag EXCEPT !["O"] = hg_atomic_incr32(@) ]
    /\ tagt' = [ tagt EXCEPT
                    ![u] = [ pc |-> "idle",
                             tag |-> hg_atomic_incr32(request_tag["O"]) ] ]
    /\ UNCHANGED << handles, nalloc, completion_queue, processing_list,
                    processing_list_mutex, completion_queue_mutex,
                    cond_signalled, bulk_context,
                    ctx_live, func_map, request_max_tag, na_cq, na_unexp,
                    na_exp, net, prog, trig, hist >>

\* One thread runs hg_gen_request_tag from entry to return (sequential
\* calls); the history keeps the tags returned, in order.
TagCall(u) ==
    /\ tagt[u].pc = "idle"
    /\ hist.tagcalls < MaxSeqCalls
    /\ LET g == hg_gen_request_tag(request_tag["O"], request_max_tag["O"])
       IN  /\ request_tag' = [ request_tag EXCEPT !["O"] = g.rt ]
           /\ tagt' = [ tagt EXCEPT ![u] = [ pc |-> "idle", tag |-> g.tag ] ]
           /\ hist' = [ hist EXCEPT !.tagcalls = @ + 1,
                                    !.tags = Append(@, g.tag) ]
    /\ UNCHANGED << handles, nalloc, completion_queue, processing_list,
                    processing_list_mutex, completion_queue_mutex,
                    cond_signalled, bulk_context,
                    ctx_live, func_map, request_max_tag, na_cq, na_unexp,
                    na_exp, net, prog, trig >>

\* ------------------------------------------------------------ specifications
\* The state after HG_Init and HG_Context_create on both processes, the
\* network class of "O" reporting maxtag as NA_Msg_get_max_tag.
InitState(maxtag, ids) ==
    /\ handles = [ x \in Handles |-> NoHandle ]
    /\ nalloc = 0
    /\ completion_queue = [ p \in Procs |-> << >> ]
    /\ processing_list = [ p \in Procs |-> << >> ]
    /\ processing_list_mutex = [ p \in Procs |-> FALSE ]
    /\ completion_queue_mutex = [ p \in Procs |-> FALSE ]
    /\ cond_signalled = [ p \in Procs |-> {} ]
    /\ bulk_context = [ p \in Procs |-> "live" ]
    /\ ctx_live = [ p \in Procs |-> TRUE ]
    /\ func_map = [ p \in Procs |->
                      [ i \in ids |->
                          [ rpc_cb |-> "rpc", data |-> "NULL",
                            free_callback |-> "NULL", released |-> FALSE ] ] ]
    /\ request_tag = [ p \in Procs |-> 0 ]
    /\ request_max_tag = [ p \in Procs |-> IF p = "O" THEN maxtag ELSE MaxTag ]
    /\ na_cq = [ p \in Procs |-> << >> ]
    /\ na_unexp = [ p \in Procs |-> << >> ]
    /\ na_exp = {}
    /\ net = {}
    /\ prog = [ t \in PThreads |-> [ pc |-> "idle", ret |-> NoRet,
                                      qne |-> FALSE, na |-> "none",
                                      lret |-> NoRet ] ]
    /\ trig = [ t \in TThreads |-> IdleTrig ]
    /\ tagt = [ u \in TagThreads |-> [ pc |-> "idle", tag |-> 0 ] ]
    /\ hist = [ faults |-> 0,
                nobuf |-> {},
                cret |-> [ x \in Handles |-> NoRet ],
                callers |-> [ c \in {"rpc", "F", "R"} |-> {} ],
                cd |-> [ p \in Procs |-> << >> ],
                tr |-> [ ret |-> NoRet, count |-> 0,
                         actual |-> Unwritten, woke |-> FALSE ],
                tagcalls |-> 0,
                tags |-> << >>,
                registered |-> { n \in {"ping"} : hg_hash_string(n) \in ids },
                entrydata |-> [ i \in DataIds |-> "NULL" ],
                last |-> NoRegOp,
                pumped |-> TRUE,
                blocked |-> FALSE,
                npush |-> [ p \in Procs |-> 0 ],
                ncb |-> [ p \in Procs |-> 0 ] ]

\* "ping" is registered on both classes before the exchanges start.
Init == InitState(MaxTag, RegisteredIds)

\* Steps of HG_Progress called by thread p, the only one on its context;
\* F: the faults allowed.
ProgressSteps(p, F) ==
    \/ ProgressListen(p)
    \/ \E ch \in Choices(F) : ProgressTrigger(p, ch)
    \/ ProgressQueued(p)
    \/ \E m \in net, fail \in F : ProgressRecvUnexpected(p, m, fail)
    \/ \E m \in net, r \in na_exp, fail \in F :
          ProgressRecvExpected(p, m, r, fail)
    \/ ProgressTimeout(p)

\* Steps of HG_Trigger called by thread t.
TriggerSteps(t, F) ==
    \/ \E maxc \in 1..MaxCount : TriggerCall(t, maxc)
    \/ TriggerTop(t)
    \/ TriggerWake(t)
    \/ TriggerTimeout(t)
    \/ \E allocfail \in F : TriggerCallback(t, allocfail)

\* One origin and one target, each with one thread in HG_Progress and one in
\* HG_Trigger; network completions and allocations may fail.
Next ==
    \/ \E addr \in Procs, id \in RpcIds : Create(addr, id, MaxCreate)
    \/ \E x \in Handles, c \in Cookies, ch \in Choices(Faulty) :
          Forward(x, c, ch)
    \/ \E x \in Handles : Destroy(x)
    \/ \E p \in Procs : ProgressSteps(p, Faulty)
    \/ \E p \in Procs : ProgressNaError(p)
    \/ \E p \in Procs, m \in net, d \in Damage : ProgressRecvDamaged(p, m, d)
    \/ \E t \in {"o1", "t1"} : TriggerSteps(t, Faulty)

Spec == Init /\ [][Next]_vars

\* The same without faults, and the user may call HG_Context_destroy.
NextCtx ==
    \/ \E addr \in Procs : Create(addr, 1, MaxCreate)
    \/ \E x \in Handles, ch \in Choices(NoFault) : Forward(x, 0, ch)
    \/ \E x \in Handles : Destroy(x)
    \/ \E p \in Procs : ProgressSteps(p, NoFault)
    \/ \E t \in {"o1", "t1"} : TriggerSteps(t, NoFault)
    \/ \E p \in Procs : ContextDestroy(p)

SpecCtx == Init /\ [][NextCtx]_vars

\* Two threads call HG_Trigger on the context of "O", whose user forwards
\* to its own address.
NextTrig ==
    \/ Create("O", 1, MaxCreateTrig)
    \/ \E x \in Handles, ch \in Choices(NoFault) : Forward(x, 0, ch)
    \/ \E x \in Handles : Destroy(x)
    \/ \E t \in {"o1", "o2"} : TriggerSteps(t, Faulty)

SpecTrig == Init /\ [][NextTrig]_vars

NextTag == \E u \in TagThreads : TagCas(u) \/ TagIncr(u)

SpecTag == Init /\ [][NextTag]_vars

\* Sequential calls of the tag allocator, for every request_max_tag the
\* width allows.
InitSeq == \E maxtag \in 0..(TagModulus - 1) : InitState(maxtag, RegisteredIds)

NextSeq == TagCall("u1")

SpecSeq == InitSeq /\ [][NextSeq]_vars

\* The registry of a fresh class, used from one thread.
InitReg == InitState(MaxTag, {})

NextReg ==
    \/ \E name \in Names, cb \in RpcCbs, allocfail \in BOOLEAN :
           RegisterRpc(name, cb, allocfail)
    \/ \E name \in Names, ub \in BOOLEAN : RegisteredRpc(name, ub)
    \/ \E id \in DataIds, data \in UserData, fcb \in FreeCbs, ub \in BOOLEAN :
           RegisterData(id, data, fcb, ub)
    \/ \E id \in DataIds, ub \in BOOLEAN : RegisteredData(id, ub)

SpecReg == InitReg /\ [][NextReg]_vars

\* One thread calls HG_Trigger on the context of "O", whose user forwards
\* to its own address; the allocation in HG_Trigger may fail.
NextFifo ==
    \/ Create("O", 1, MaxCreateTrig)
    \/ \E x \in Handles, ch \in Choices(NoFault) : Forward(x, 0, ch)
    \/ \E x \in Handles : Destroy(x)
    \/ TriggerSteps("o1", Faulty)

SpecFifo == Init /\ [][NextFifo]_vars

\* Two threads call HG_Progress on the context of "T" while "O" forwards a
\* request to it; the calls hg_listen makes may fail.
NextPump ==
    \/ Create("T", 1, MaxCreate)
    \/ \E x \in Handles, ch \in Choices(NoFault) : Forward(x, 0, ch)
    \/ \E t \in {"T", "T2"} :
          \/ ListenLock(t)
          \/ ListenTest(t)
          \/ \E f \in ListenOutcomes : ListenBody(t, f)
          \/ \E ch \in Choices(NoFault) : ProgressTrigger(t, ch)
          \/ ProgressQueued(t)
          \/ \E m \in net : ProgressRecvUnexpected(t, m, FALSE)
          \/ ProgressTimeout(t)
    \/ TriggerSteps("t1", NoFault)

SpecPump == Init /\ [][NextPump]_vars

\* Handle creation with allocation failures: HG_Create on "O" and the
\* listen pump on "T", where hg_create may fail to allocate the handle or
\* one of its buffers; no request is sent.
NextBufs ==
    \/ \E addr \in Procs, id \in RpcIds,
          f \in BufOutcomes \cup {"nohandle"}, g \in UnsetRefCounts :
           CreateBufs(addr, id, f, g, MaxCreate)
    \/ \E x \in Handles : Destroy(x)
    \/ \E t \in {"T", "T2"} :
           \/ ListenLock(t)
           \/ ListenTest(t)
           \/ \E f \in ListenOutcomes : ListenBody(t, f)
           \/ \E f \in BufOutcomes, g \in UnsetRefCounts :
                  ListenBodyBufs(t, f, g)
           \/ ProgressTimeout(t)

SpecBufs == Init /\ [][NextBufs]_vars

\* --------------------------------------------------------------- properties
Allocated == { x \in Handles : x <= nalloc }
Origins == { x \in Allocated : handles[x].kind = "origin" }
Ran(q) == { q[i] : i \in 1..Len(q) }

\* The handle on which the target side of the exchange of origin handle x
\* runs: x itself when forwarded to the own address, else the listen
\* handle that received the request (0 while there is none).
TargetOf(x) ==
    IF handles[x].dst = "O" THEN x
    ELSE IF \E y \in Allocated : handles[y].xid = x
    THEN CHOOSE y \in Allocated : handles[y].xid = x
    ELSE 0

\* User callbacks invoked so far for the exchange of origin handle x.
Callbacks(x) ==
    LET y == TargetOf(x) IN
    [ rpc |-> IF y = 0 THEN 0 ELSE handles[y].n_rpc,
      F |-> handles[x].n_F,
      R |-> IF y = 0 THEN 0 ELSE handles[y].n_R ]

\* Progress and Trigger have nothing left to deliver and no call is running.
NothingLeft ==
    /\ \A p \in Procs : /\ na_cq[p] = << >>
                         /\ completion_queue[p] = << >>
    /\ \A t \in PThreads : prog[t].pc = "idle"
    /\ \A t \in TThreads : trig[t].pc = "idle"
    /\ net = {}
    /\ na_exp = {}

\* The exchange of x was forwarded for a registered id, ran without any
\* fault and is over.
ExchangeDone(x) ==
    /\ handles[x].fwd
    /\ handles[x].rid \in RegisteredIds
    /\ hist.faults = 0
    /\ NothingLeft

\* C1 (as claimed): when an exchange is over, the user callbacks invoked
\* for it are the RPC callback once, F once and R once, whether it was
\* forwarded to the own address or to a remote one.
C1_SelfDispatchEquivalence ==
    \A x \in Origins :
        ExchangeDone(x) => Callbacks(x) = [ rpc |-> 1, F |-> 1, R |-> 1 ]

\* C2: for a forward to the remote address with a registered id and no
\* fault, F is invoked at most once on the origin handle and R at most
\* once on the target handle, never more often than the network completion
\* has put the handle on the completion queue (so each invocation follows
\* its push), and exactly once each when the exchange is over.
C2_RemoteCallbacksOnce ==
    \A x \in Origins :
        handles[x].dst = "T" =>
            LET y == TargetOf(x) IN
            /\ handles[x].n_F <= handles[x].pushes
            /\ handles[x].pushes <= 1
            /\ handles[x].n_R = 0
            /\ y # 0 => /\ handles[y].n_R <= handles[y].pushes
                        /\ handles[y].pushes <= 1
                        /\ handles[y].n_F = 0
                        /\ handles[y].n_rpc <= 1
            /\ ExchangeDone(x) =>
                   /\ y # 0
                   /\ Callbacks(x) = [ rpc |-> 1, F |-> 1, R |-> 1 ]

C2_Witness ==
    \E x \in Origins :
        /\ handles[x].dst = "T"
        /\ ExchangeDone(x)
        /\ Callbacks(x) = [ rpc |-> 1, F |-> 1, R |-> 1 ]

\* The runtime still uses handle x: it is on a completion queue, popped by
\* a HG_Trigger that has not released it yet, has a receive posted or a
\* completed network operation whose callback has not run.
NeededByRuntime(x) ==
    \/ \E p \in Procs : \/ x \in Ran(completion_queue[p])
                         \/ x \in Ran(na_unexp[p])
                         \/ \E i \in 1..Len(na_cq[p]) : na_cq[p][i].h = x
    \/ \E r \in na_exp : r.h = x
    \/ \E t \in TThreads : trig[t].h = x

\* HG_Trigger has released its reference on x.
Released(x) == handles[x].n_F + handles[x].n_R >= 1

\* C4: a handle the runtime still uses is allocated with reference count
\* >= 1; an allocated handle holds one reference per user reference not
\* yet released plus one for the runtime until HG_Trigger has delivered it
\* (so HG_Create leaves 2); and a handle is freed only after HG_Trigger
\* has invoked its completion callback.
C4_NotFreedWhileNeeded ==
    \A x \in Allocated :
        /\ NeededByRuntime(x) =>
               handles[x].alloc /\ handles[x].ref_count >= 1
        /\ handles[x].alloc =>
               handles[x].ref_count
                   = handles[x].urefs + (IF Released(x) THEN 0 ELSE 1)
        /\ handles[x].frees <= 1
        /\ handles[x].frees = 1 => Released(x)

\* The user destroyed an origin handle whose completion is still on the
\* completion queue: one reference is left and the handle is allocated.
C4_Witness ==
    \E x \in Origins :
        /\ handles[x].urefs = 0
        /\ x \in Ran(completion_queue["O"])
        /\ handles[x].alloc
        /\ handles[x].ref_count = 1

\* C5 (as claimed): a HG_Trigger call returns HG_TIMEOUT only if no signal
\* of a pushed completion woke it while it waited.
C5_WokenTriggerDelivers ==
    hist.tr.ret = HG_TIMEOUT => ~hist.tr.woke

\* C6 (as claimed): HG_Progress invokes no user callback.
C6_ProgressRunsNoUserCode ==
    \A c \in {"rpc", "F", "R"} : "HG_Progress" \notin hist.callers[c]

\* C6 (amended): the completion callbacks passed to HG_Forward_buf and
\* HG_Respond_buf are invoked by HG_Trigger only; the registered RPC
\* callback is invoked by HG_Progress (a request arrived) or by
\* HG_Forward_buf (forward to the own address).
C6_CompletionCallbacksInTrigger ==
    /\ hist.callers["F"] \subseteq {"HG_Trigger"}
    /\ hist.callers["R"] \subseteq {"HG_Trigger"}
    /\ hist.callers["rpc"] \subseteq {"HG_Progress", "HG_Forward_buf"}

C6_Witness ==
    /\ hist.callers["F"] = {"HG_Trigger"}
    /\ hist.callers["R"] = {"HG_Trigger"}
    /\ hist.callers["rpc"] = {"HG_Progress"}

\* C10 (as claimed): a HG_Trigger call that returns HG_TIMEOUT or another
\* error has written the number of callbacks it delivered to actual_count.
C10_ActualCountOnError ==
    hist.tr.ret \in {HG_TIMEOUT, HG_NOMEM_ERROR} =>
        hist.tr.actual = hist.tr.count

\* C7 (as claimed): every tag the allocator returns is in
\* 0..request_max_tag, whatever the interleaving of the calling threads.
C7_TagInRange ==
    \A u \in TagThreads : tagt[u].tag \in 0..MaxTag

\* Every handle created was forwarded, the exchanges are over, all user
\* references are released and both contexts are destroyed.
RunOver ==
    /\ \A p \in Procs : ~ctx_live[p]
    /\ \A x \in Allocated : handles[x].urefs = 0
    /\ \A x \in Origins : handles[x].fwd
    /\ NothingLeft

\* C3 (as claimed): no reference count is ever negative and, at the end of
\* a run, every handle allocated has been freed exactly once.
C3_EveryHandleFreedOnce ==
    /\ \A x \in Allocated : handles[x].ref_count >= 0
    /\ RunOver => \A x \in Allocated : handles[x].frees = 1

\* C9: every HG_Context_destroy call that found the completion queue
\* non-empty returned HG_PROTOCOL_ERROR, and every call that found it empty
\* (a second call after HG_Trigger drained it) returned HG_SUCCESS.
C9_ContextDestroyResult ==
    \A p \in Procs : \A i \in 1..Len(hist.cd[p]) :
        /\ hist.cd[p][i].ne => hist.cd[p][i].ret = HG_PROTOCOL_ERROR
        /\ ~hist.cd[p][i].ne => hist.cd[p][i].ret = HG_SUCCESS
        /\ hist.cd[p][i].ret = HG_SUCCESS => (i = Len(hist.cd[p]) /\ ~ctx_live[p])
        /\ hist.cd[p][i].ret # HG_SUCCESS /\ i = Len(hist.cd[p]) => ctx_live[p]

C9_Witness ==
    \E p \in Procs :
        hist.cd[p] = << [ ne |-> TRUE, ret |-> HG_PROTOCOL_ERROR ],
                        [ ne |-> FALSE, ret |-> HG_SUCCESS ] >>

\* Threads in HG_Trigger that hold handle x, popped and not yet released.
Holders(x) == { t \in TThreads : trig[t].h = x }
\* Times x is on a completion queue.
Queued(x) ==
    Cardinality({ pi \in Procs \X (1..NH) :
                    /\ pi[2] <= Len(completion_queue[pi[1]])
                    /\ completion_queue[pi[1]][pi[2]] = x })

C11_SequentialTags ==
    /\ \A k \in 1..Len(hist.tags) :
           hist.tags[k] = k % (request_max_tag["O"] + 1)
    /\ (request_max_tag["O"] = 3 /\ Len(hist.tags) >= 5) =>
           SubSeq(hist.tags, 1, 5) = << 1, 2, 3, 0, 1 >>

C11_Witness ==
    /\ request_max_tag["O"] = 3
    /\ hist.tags = << 1, 2, 3, 0, 1 >>

\* Sequential calls returned tags in range, any two consecutive ones
\* different.
TagsInRangeAndDiffer ==
    /\ \A k \in 1..Len(hist.tags) : hist.tags[k] \in 0..request_max_tag["O"]
    /\ \A k \in 1..(Len(hist.tags) - 1) : hist.tags[k] # hist.tags[k + 1]

\* C12 (as claimed): for every request_max_tag, all tags of K sequential
\* calls are in 0..request_max_tag and consecutive tags differ.
C12_TagsDifferForEveryMax == TagsInRangeAndDiffer

\* C12 (amended): the same for every request_max_tag >= 1; with
\* request_max_tag = 0 the only tag is 0 and every call returns it.
C12_TagsDifferForPositiveMax ==
    request_max_tag["O"] >= 1 => TagsInRangeAndDiffer

\* More calls than request_max_tag + 1 were made: the counter was reset.
C12_Witness ==
    /\ request_max_tag["O"] >= 1
    /\ Len(hist.tags) > request_max_tag["O"] + 1
    /\ hist.tags[request_max_tag["O"] + 1] = 0

\* C13: HG_Registered_rpc on a name for which HG_Register_rpc returned an
\* id answers (true, hash(name)); on a name whose id has no entry it
\* answers (false, 0); it leaves the registry as it was, and a call that
\* repeats the previous one gives the same answer.
C13_RegisteredRpcLookup ==
    hist.last.op = "HG_Registered_rpc" =>
        /\ hist.last.reg =>
               hist.last.flag /\ hist.last.id = hg_hash_string(hist.last.key)
        /\ hist.last.absent => ~hist.last.flag /\ hist.last.id = 0
        /\ hist.last.same
        /\ (hist.last.twice /\ (hist.last.reg \/ hist.last.absent)) =>
               hist.last.rep

\* "ping" was registered and looked up twice in a row; "pong" was not.
C13_Witness ==
    /\ hist.last = [ NoRegOp EXCEPT
                       !.op = "HG_Registered_rpc", !.key = "ping",
                       !.flag = TRUE, !.id = hg_hash_string("ping"),
                       !.reg = TRUE, !.twice = TRUE ]
    /\ "pong" \notin hist.registered
    /\ NoEntry(func_map["O"], hg_hash_string("pong"))

\* C14 (as claimed): a HG_Register_rpc call for an id that has an entry
\* leaves that entry, callback and data, as it was.
C14_NoSilentOverwrite ==
    (hist.last.op = "HG_Register_rpc" /\ hist.last.live) => hist.last.same

\* Every registry call leaves the entries of the other ids alone; the
\* entry of a live id holds the data last attached to it.
RegistryData ==
    /\ hist.last.others
    /\ \A id \in DataIds :
           LiveEntry(func_map["O"], id) =>
               func_map["O"][id].data = hist.entrydata[id]

\* C18: HG_Register_data on an id with an entry returns HG_SUCCESS, stores
\* the data there and changes no other entry; on an id without entry it
\* returns HG_NO_MATCH and changes nothing. HG_Registered_data returns the
\* data last attached to the entry of the id, NULL when the id has no
\* entry, and changes nothing.
C18_RegisterDataRoundTrip ==
    /\ RegistryData
    /\ hist.last.op = "HG_Register_data" =>
           /\ hist.last.live =>
                  hist.last.code = HG_SUCCESS /\ hist.last.stored
           /\ hist.last.absent =>
                  hist.last.code = HG_NO_MATCH /\ hist.last.same
    /\ hist.last.op = "HG_Registered_data" =>
           /\ hist.last.same
           /\ hist.last.live => hist.last.stored
           /\ hist.last.absent => hist.last.data = "NULL"

\* d1 was attached to id 1, then d2 to id 2, and HG_Registered_data(1)
\* returns d1.
C18_Witness ==
    /\ hist.last.op = "HG_Registered_data"
    /\ hist.last.id = 1 /\ hist.last.live /\ hist.last.data = "d1"
    /\ LiveEntry(func_map["O"], 2) /\ func_map["O"][2].data = "d2"

\* Origin handles forwarded to the remote address with an id the target
\* has not registered.
NoMatchOrigins ==
    { x \in Origins : /\ handles[x].fwd
                      /\ handles[x].dst = "T"
                      /\ handles[x].rid \notin DOMAIN func_map["T"] }

\* C15: for a forward to the remote address with an id the target has not
\* registered, the target runs no RPC callback and sends no response,
\* nothing is put on the origin's completion queue and no completion
\* callback runs for the exchange, and, the exchange being the only one the
\* origin has forwarded, every HG_Progress call the origin has finished
\* returned HG_TIMEOUT or, when NA_Progress itself failed, HG_NA_ERROR -
\* never HG_SUCCESS.
C15_NoMatchDropped ==
    \A x \in NoMatchOrigins :
        LET y == TargetOf(x) IN
        /\ Callbacks(x) = [ rpc |-> 0, F |-> 0, R |-> 0 ]
        /\ handles[x].pushes = 0
        /\ y # 0 => /\ ~handles[y].rsp
                    /\ handles[y].pushes = 0
        /\ x \notin Ran(completion_queue["O"])
        /\ ( /\ \A z \in Origins \ {x} : ~handles[z].fwd
             /\ prog["O"].pc = "idle" /\ prog["O"].ret # NoRet ) =>
               \/ prog["O"].ret = HG_TIMEOUT
               \/ prog["O"].ret = HG_NA_ERROR /\ prog["O"].na = NA_PROTOCOL_ERROR

\* The target has read the request and dropped it, and the origin's
\* HG_Progress has returned HG_TIMEOUT.
C15_Witness ==
    \E x \in NoMatchOrigins :
        /\ TargetOf(x) # 0
        /\ handles[TargetOf(x)].reqcookie # NoCookie
        /\ handles[TargetOf(x)].id = handles[x].rid
        /\ na_cq["T"] = << >> /\ na_cq["O"] = << >>
        /\ prog["O"].pc = "idle" /\ prog["O"].ret = HG_TIMEOUT

\* C16: a HG_Progress call that found the completion queue non-empty
\* after the NA_Trigger loop returned HG_SUCCESS without calling
\* NA_Progress; otherwise it called NA_Progress and returned HG_TIMEOUT
\* when that timed out, HG_NA_ERROR when it failed otherwise and
\* HG_SUCCESS when it succeeded.
C16_ProgressResult ==
    \A p \in Procs :
        (prog[p].pc = "idle" /\ prog[p].ret # NoRet) =>
            /\ prog[p].qne => prog[p].na = "none" /\ prog[p].ret = HG_SUCCESS
            /\ ~prog[p].qne => prog[p].na # "none"
            /\ prog[p].na = NA_TIMEOUT <=> prog[p].ret = HG_TIMEOUT
            /\ prog[p].na = NA_PROTOCOL_ERROR <=> prog[p].ret = HG_NA_ERROR
            /\ prog[p].na = NA_SUCCESS => prog[p].ret = HG_SUCCESS

\* One context returned at once on a non-empty queue, the other returned
\* HG_NA_ERROR from a failed NA_Progress.
C16_Witness ==
    /\ prog["O"].pc = "idle" /\ prog["O"].qne /\ prog["O"].ret = HG_SUCCESS
    /\ prog["T"].pc = "idle" /\ prog["T"].ret = HG_NA_ERROR

\* C17: the cookie the origin's hg_recv_output_cb decodes from the response
\* header is the cookie the target's hg_process read from the request
\* header (which is the one HG_Forward_buf encoded).
C17_CookieRoundTrip ==
    \A x \in Origins :
        handles[x].rspcookie # NoCookie =>
            /\ TargetOf(x) # 0
            /\ handles[x].rspcookie = handles[TargetOf(x)].reqcookie
            /\ handles[x].rspcookie = handles[x].sentcookie

\* A response carrying cookie 1 was decoded on the origin.
C17_Witness ==
    \E x \in Origins :
        /\ handles[x].dst = "T"
        /\ handles[x].rspcookie = 1
        /\ handles[TargetOf(x)].reqcookie = 1

\* C19 (as claimed): when the exchanges are over, a handle for which a
\* network completion of the response reported a failure has been
\* delivered by HG_Trigger, and its completion callback was passed a status
\* other than HG_SUCCESS.
C19_FailureSurfaced ==
    NothingLeft =>
        \A x \in DOMAIN handles :
            handles[x].nafail =>
                /\ handles[x].n_F + handles[x].n_R >= 1
                /\ handles[x].cbret # HG_SUCCESS

\* C20 (as claimed): after the pump of every HG_Progress call on a
\* listening class, the processing list holds
\* HG_MAX_PROCESSING_LIST_SIZE handles and each has an unexpected receive
\* outstanding.
C20_PumpKeepsReceivePosted == hist.pumped

\* C21 (as claimed): a mutex is held only while a thread is inside the
\* section it protects: the processing-list mutex only while a thread is
\* in the loop of hg_listen, the completion-queue mutex never between two
\* steps; so no thread blocks forever on a mutex that was left locked.
C21_MutexesReleased ==
    /\ \A p \in Procs :
          /\ processing_list_mutex[p] =>
                \E t \in PThreads : /\ PCtx(t) = p
                                     /\ prog[t].pc \in {"test", "body"}
          /\ ~completion_queue_mutex[p]
    /\ ~hist.blocked

\* C22: the processing list of a context never holds more than
\* HG_MAX_PROCESSING_LIST_SIZE handles, with two threads in HG_Progress on
\* the context, request-arrival callbacks removing entries and the calls
\* of hg_listen failing or not.
C22_ProcessingListBounded ==
    \A p \in Procs : Len(processing_list[p]) <= HG_MAX_PROCESSING_LIST_SIZE

\* One thread is in the loop of hg_listen with the list refilled after a
\* request-arrival callback removed an entry, while the other thread is
\* inside HG_Progress too.
C22_Witness ==
    /\ prog["T"].pc # "idle" /\ prog["T2"].pc # "idle"
    /\ \E t \in {"T", "T2"} : prog[t].pc = "test"
    /\ Len(processing_list["T"]) = HG_MAX_PROCESSING_LIST_SIZE
    /\ \E x \in Handles : handles[x].kind = "listen" /\ handles[x].n_rpc = 1

\* The places of handle x on the processing lists.
OnLists(x) ==
    { pi \in Procs \X (1..NH) :
        /\ pi[2] <= Len(processing_list[pi[1]])
        /\ processing_list[pi[1]][pi[2]] = x }

\* C23 (as claimed): a handle is on at most one processing list and at
\* most once; a handle whose unexpected receive is posted is on the list of
\* its context (it was put there before the post); and a handle on which
\* the RPC callback has run is on no list (it was removed before the
\* dispatch).
C23_ListedWhilePosted ==
    \A x \in Handles :
        /\ Cardinality(OnLists(x)) <= 1
        /\ handles[x].n_rpc >= 1 => OnLists(x) = {}
        /\ \A p \in Procs :
              (\E i \in 1..Len(na_unexp[p]) : na_unexp[p][i] = x) =>
                  \E i \in 1..Len(processing_list[p]) :
                      processing_list[p][i] = x

\* C24: when HG_Forward_buf posted the unexpected send of a request, the
\* expected receive for its response was already posted; a response in
\* flight finds the receive of its origin handle still posted; and a
\* handle whose receive could not be posted has sent no request.
C24_ReceivePostedBeforeSend ==
    /\ \A x \in Handles :
          /\ handles[x].reqsend # "noslot"
          /\ handles[x].reqsend = "slot" => handles[x].rpost = "posted"
          /\ handles[x].rpost = "failed" =>
                /\ handles[x].reqsend = "none"
                /\ \A m \in net : m.from # x
                /\ \A y \in Handles : handles[y].xid # x
    /\ \A m \in net :
          m.kind = "expected" =>
              \E r \in na_exp : r.h = handles[m.from].xid

\* A response is in flight to an origin whose request was sent with the
\* receive posted, and another state where the post of the receive failed.
C24_Witness ==
    \E x \in Origins :
        /\ handles[x].reqsend = "slot"
        /\ \E m \in net : m.kind = "expected" /\ handles[m.from].xid = x

C24_WitnessPostFailed ==
    \E x \in Origins : handles[x].fwd /\ handles[x].rpost = "failed"

\* The context of a handle, from who allocated it.
CtxOf(x) == IF handles[x].kind = "listen" THEN "T" ELSE "O"

\* C25: with one thread in HG_Trigger, of two handles pushed on the
\* completion queue of one context the one pushed first has its callback
\* invoked first: when the later one's callback has run, the earlier one's
\* has run before it (or the earlier one was popped by a HG_Trigger call
\* that failed before the callback).
C25_FifoDelivery ==
    \A x \in Handles, y \in Handles :
        ( /\ CtxOf(x) = CtxOf(y)
          /\ handles[x].pushno >= 1
          /\ handles[x].pushno < handles[y].pushno
          /\ handles[y].cbno >= 1 ) =>
              \/ handles[x].cbno >= 1 /\ handles[x].cbno < handles[y].cbno
              \/ handles[x].drops >= 1

\* Two handles were on the queue together (the second was pushed before
\* any callback had run) and both callbacks have run, in order.
C25_Witness ==
    \E x \in Handles, y \in Handles :
        /\ handles[x].pushno = 1 /\ handles[y].pushno = 2
        /\ handles[y].cbseen = 0
        /\ handles[x].cbno = 1 /\ handles[y].cbno = 2

\* C26: while a HG_Trigger call is between the pop of a handle and the end
\* of its callback, the completion-queue mutex of the context is not
\* held, and no hg_complete (from HG_Respond_buf or HG_Forward_buf to the
\* own address, or from a network callback) has ever blocked on it.
C26_CallbackRunsUnlocked ==
    /\ \A t \in TThreads :
          trig[t].pc = "cb" => ~completion_queue_mutex[TCtx(t)]
    /\ ~hist.blocked

\* A handle was pushed on the queue of a context by a forward to the own
\* address while a HG_Trigger call on that context was about to run a
\* callback, and that call is still there.
C26_Witness ==
    /\ \E x \in Handles : handles[x].cbpush /\ handles[x].dst = "O"
    /\ \E t \in TThreads : trig[t].pc = "cb" /\ TCtx(t) = "O"

\* Handles that received a request whose header does not decode or verify.
BadRequestHandles ==
    { y \in Handles : /\ handles[y].alloc
                      /\ handles[y].xid # 0
                      /\ \E d \in Damage, c \in Cookies :
                            handles[y].in_buf =
                                Damaged(<< "HGREQ", handles[handles[y].xid].rid,
                                           c >>, d) }

\* C27: on a handle that received a request whose header fails to decode
\* or to verify, no RPC callback is invoked, the reference count stays at
\* the 1 of hg_create, HG_Respond_buf is not called and nothing is sent for
\* it, and it is never put on the completion queue.
C27_BadHeaderAbortsDispatch ==
    \A y \in BadRequestHandles :
        /\ handles[y].n_rpc = 0
        /\ handles[y].ref_count = 1
        /\ handles[y].urefs = 0
        /\ ~handles[y].rsp
        /\ \A m \in net : m.from # y
        /\ handles[y].pushes = 0
        /\ y \notin Ran(completion_queue["T"])

\* hg_recv_input_cb has run for such a handle: it is off the processing
\* list and no network callback is waiting.
C27_Witness ==
    \E y \in BadRequestHandles :
        /\ na_cq["T"] = << >>
        /\ y \notin Ran(processing_list["T"])
        /\ handles[y].addr_mine
        /\ prog["T"].pc = "idle"

\* C28: a response in flight was sent to the process of its origin handle
\* with the tag of the request, so it matches the expected receive that
\* handle posted in HG_Forward_buf (same peer, same tag); a target handle
\* whose request was dispatched holds the source and the tag of the
\* request; and the target's tag counter is never advanced.
C28_ResponseMatchesReceive ==
    /\ \A m \in net :
          m.kind = "expected" =>
              LET x == handles[m.from].xid IN
              /\ m.dst = CtxOf(x)
              /\ \E r \in na_exp : /\ r.h = x /\ r.p = m.dst
                                   /\ r.addr = m.src /\ r.tag = m.tag
    /\ \A y \in Handles :
          ( handles[y].alloc /\ handles[y].kind = "listen"
            /\ handles[y].n_rpc >= 1 /\ handles[handles[y].xid].alloc ) =>
              /\ handles[y].addr = handles[handles[y].xid].ctx
              /\ handles[y].tag = handles[handles[y].xid].tag
    /\ request_tag["T"] = 0

\* A response with the tag 1 of the first request is in flight.
C28_Witness ==
    \E m \in net :
        /\ m.kind = "expected" /\ m.tag = 1 /\ m.src = "T"
        /\ \E r \in na_exp : r.addr = "T" /\ r.tag = 1 /\ r.p = "O"

\* hg_recv_input_cb has run for the request listen handle y received.
Dispatched(y) ==
    /\ handles[y].kind = "listen"
    /\ handles[y].xid # 0
    /\ \A i \in 1..Len(na_cq["T"]) :
          ~(na_cq["T"][i].h = y /\ na_cq["T"][i].cb = "hg_recv_input_cb")

\* C29: a handle created by HG_Create never has addr_mine set and
\* NA_Addr_free is never called on its address, forwarded to the own
\* address or not; a listen handle that received a request has addr_mine
\* set while it is allocated, and NA_Addr_free is called on its address
\* once, when it is freed, and not before.
C29_AddressOwnership ==
    \A x \in Handles :
        /\ handles[x].kind = "origin" =>
              /\ ~handles[x].addr_mine
              /\ handles[x].addr_frees = 0
        /\ Dispatched(x) =>
              /\ handles[x].frees <= 1
              /\ handles[x].alloc =>
                    handles[x].addr_mine /\ handles[x].addr_frees = 0
              /\ handles[x].addr_frees = handles[x].frees

\* The handles of both sides of an exchange have been freed, the target's
\* with its address, the origin's without.
C29_Witness ==
    \E x \in Handles, y \in Handles :
        /\ handles[x].kind = "origin" /\ handles[x].frees = 1
        /\ handles[x].addr_frees = 0
        /\ Dispatched(y) /\ handles[y].xid = x
        /\ handles[y].frees = 1 /\ handles[y].addr_frees = 1

\* C30 (as claimed): a context whose last HG_Context_destroy call returned
\* HG_PROTOCOL_ERROR is as it was before the call: it is still allocated
\* and its bulk context is still there.
C30_FailedDestroyLeavesContext ==
    \A p \in Procs :
        ( /\ hist.cd[p] # << >>
          /\ hist.cd[p][Len(hist.cd[p])].ret = HG_PROTOCOL_ERROR ) =>
              /\ ctx_live[p]
              /\ bulk_context[p] = "live"

\* C31 (as claimed): HG_Register_rpc returns 0 only when nothing was stored.
\* A non-zero id returned is the key under which the entry is stored with
\* its callback; after a call that returned 0 (also for a name whose hash is
\* 0) the registry has no entry whose key or record was released and no
\* entry made by the call: an id without a live entry before has none after,
\* and the other entries are as they were.
C31_ZeroMeansNothingStored ==
    hist.last.op = "HG_Register_rpc" =>
        /\ hist.last.stored
        /\ hist.last.id = 0 =>
               /\ \A i \in DOMAIN func_map["O"] : ~func_map["O"][i].released
               /\ ~hist.last.live =>
                      NoEntry(func_map["O"], hg_hash_string(hist.last.key))
               /\ hist.last.others

\* C32 (as claimed): when allocating the input or the output buffer of a
\* handle fails, creation fails as a whole. Such a handle was not handed
\* to a caller with HG_SUCCESS, is not held by a user, has nothing left
\* allocated and is on no processing list.
C32_CreateFailsAsAWhole ==
    \A x \in hist.nobuf :
        /\ hist.cret[x] # HG_SUCCESS
        /\ handles[x].urefs = 0
        /\ ~handles[x].alloc /\ handles[x].bufs = {}
        /\ OnLists(x) = {}

\* C33 (as claimed): when the listen pump failed inside HG_Progress
\* (hg_create, the append to the processing list or the post of the
\* unexpected receive failed), HG_Progress returns that failure to its
\* caller, not HG_SUCCESS and not the result of hg_progress.
C33_ListenFailureReported ==
    \A t \in PThreads :
        ( /\ prog[t].pc = "idle"
          /\ prog[t].lret \notin {NoRet, HG_SUCCESS} ) =>
            prog[t].ret = prog[t].lret

====
